---- MODULE Spec2Model ----
(***************************************************************************)
(* Verification model of the sephira3 backend: the guardrail service, the  *)
(* query parser, the summary statistics and the two request paths          *)
(* (/api/chat through LLMService.process_query, and /api/query-data).      *)
(*                                                                         *)
(* Texts (queries, generated responses, dates) are TLA+ strings; the       *)
(* regular expressions of the source are interpreted, character by         *)
(* character, by the small matcher MatchEnds below.                        *)
(***************************************************************************)
EXTENDS Integers, Sequences, FiniteSets, TLC

VARIABLES
    query,          \* validate_query: the query argument
    verdict,        \* validate_query: the returned tuple, or NoVerdict before the call
    response_text,  \* GuardrailService.sanitize_response: the response argument
    sanitized,      \* its return value s as <<s>>, or <<>> before the call
    query_history,  \* check_rate_limit: the query_history argument
    rate_now,       \* check_rate_limit: datetime.now(), in seconds
    rate_result,    \* its return value r as <<r>>, or <<>> before the call
    parser_query,         \* QueryParser: the query argument
    self_available_countries,  \* QueryParser.available_countries
    self_date_range,           \* QueryParser.date_range = (start_date, end_date)
    datetime_now,                  \* datetime.now(), as a date
    pads_year,            \* whether the platform's strftime pads %Y to 4 digits
    parser_result,        \* <<>> before the call, <<[op, value]>> after it
    ENABLE_GUARDRAILS,    \* Config.ENABLE_GUARDRAILS
    sessions,             \* app.sessions: session id -> its stored history
    tracker,              \* the ActivityTracker's fields
    clock,                \* the number of requests handled so far
    request,              \* the request handled last (<<>> before the first)
    trace,                \* what handling it did: validations, data reads, backend calls
    process_result,       \* <<r>> when it made process_query return r, <<>> otherwise
    outcome,              \* what its caller received (<<>> before the first)
    df,                   \* DataService.df: rows of a date and one country's cell
    stats_call,           \* the arguments of get_summary_statistics
    stats_result,         \* <<>> before the call, <<r>> once it returned or raised r
    ds_countries,         \* DataService.countries
    ds_date_range,        \* DataService.date_range
    ds_call,              \* the data layer or validator call made last (<<>> before the first)
    ds_result,            \* <<r>> once it returned or raised r
    caller_list           \* the list a caller holds from get_countries (<<>> before)

guardVars == <<query, verdict>>

sanitizeVars == <<response_text, sanitized>>

rateVars == <<query_history, rate_now, rate_result>>

parserVars ==
    <<parser_query, self_available_countries, self_date_range, datetime_now, pads_year, parser_result>>

hostVars ==
    <<ENABLE_GUARDRAILS, sessions, tracker, clock, request, trace, process_result, outcome>>

statsVars ==
    <<df, stats_call, stats_result, ds_countries, ds_date_range, ds_call, ds_result, caller_list>>

vars == <<guardVars, sanitizeVars, rateVars, parserVars, hostVars, statsVars>>

(***************************************************************************)
(* Characters and strings.                                                 *)
(***************************************************************************)
Char(s, i) == SubSeq(s, i, i)

\* Python's None
None == "None"

UpperAlphabet == "ABCDEFGHIJKLMNOPQRSTUVWXYZ"

LowerAlphabet == "abcdefghijklmnopqrstuvwxyz"

DigitChars == {"0", "1", "2", "3", "4", "5", "6", "7", "8", "9"}

CharsOf(s) == {Char(s, k) : k \in 1..Len(s)}

UpperChars == CharsOf(UpperAlphabet)

\* \w of Python's re module, over the characters the model uses
WordChars == UpperChars \cup CharsOf(LowerAlphabet) \cup DigitChars \cup {"_"}

\* \s of Python's re module
Whitespace == {" ", "\t", "\n", "\r", "\f"}

\* str.lower() on one character
LowerChar(c) ==
    IF c \in UpperChars
    THEN Char(LowerAlphabet, CHOOSE k \in 1..Len(UpperAlphabet) : Char(UpperAlphabet, k) = c)
    ELSE c

RECURSIVE Lower(_)
\* str.lower()
Lower(s) == IF s = "" THEN "" ELSE LowerChar(Head(s)) \o Lower(Tail(s))

\* Python's `sub in s` on strings
Contains(s, sub) ==
    \E i \in 1..(Len(s) - Len(sub) + 1) : SubSeq(s, i, i + Len(sub) - 1) = sub

RECURSIVE Split(_, _)
\* str.split(sep) for a one-character separator: the pieces of the two halves,
\* the last piece of the left half continued by the first of the right half
Split(s, sep) ==
    IF Len(s) = 0 THEN <<"">>
    ELSE IF Len(s) = 1 THEN (IF s = sep THEN <<"", "">> ELSE <<s>>)
    ELSE LET Merge(l, r) ==
                 SubSeq(l, 1, Len(l) - 1) \o <<l[Len(l)] \o Head(r)>> \o Tail(r)
         IN  Merge(Split(SubSeq(s, 1, Len(s) \div 2), sep),
                   Split(SubSeq(s, (Len(s) \div 2) + 1, Len(s)), sep))

RECURSIVE Join(_, _)
\* sep.join(parts)
Join(parts, sep) ==
    IF Len(parts) = 0 THEN ""
    ELSE IF Len(parts) = 1 THEN parts[1]
    ELSE parts[1] \o sep \o Join(Tail(parts), sep)

\* str.strip()
Strip(s) ==
    LET n == Len(s)
        IsSpace(i) == Char(s, i) \in Whitespace
    IN  IF \A i \in 1..n : IsSpace(i) THEN ""
        ELSE SubSeq(s,
                    CHOOSE i \in 1..n : ~IsSpace(i) /\ \A j \in 1..(i - 1) : IsSpace(j),
                    CHOOSE i \in 1..n : ~IsSpace(i) /\ \A j \in (i + 1)..n : IsSpace(j))

RECURSIVE RemoveChar(_, _)
\* str.replace(c, '')
RemoveChar(s, c) ==
    IF s = "" THEN ""
    ELSE (IF Head(s) = c THEN "" ELSE Head(s)) \o RemoveChar(Tail(s), c)

\* str.isdigit()
IsDigit(s) == Len(s) > 0 /\ \A i \in 1..Len(s) : Char(s, i) \in DigitChars

\* str.count(c)
CountChar(s, c) == Cardinality({i \in 1..Len(s) : Char(s, i) = c})

\* Python's seq[-n:]
LastN(seq, n) == IF Len(seq) <= n THEN seq ELSE SubSeq(seq, Len(seq) - n + 1, Len(seq))

(***************************************************************************)
(* Regular expressions: the subset of Python's re syntax the source uses.  *)
(* MatchEnds(re, s, i) is the set of positions j such that re matches      *)
(* s[i..j-1]; position Len(s)+1 is the end of the string.                  *)
(***************************************************************************)
Lit(w) == [op |-> "lit", w |-> w]

\* (w1|w2|...) over literal words
Words(ws) == [op |-> "words", ws |-> ws]

\* (r1|r2|...)
Alt(rs) == [op |-> "alt", rs |-> rs]

\* r1 r2 ...
Cat(rs) == [op |-> "seq", rs |-> rs]

\* r?
Opt(r) == [op |-> "opt", r |-> r]

\* \b
WB == [op |-> "wb"]

\* \s+
WS1 == [op |-> "ws", min |-> 1]

\* \s*
WS0 == [op |-> "ws", min |-> 0]

\* .
AnyChar == [op |-> "any"]

\* \d{lo,hi}
Digits(lo, hi) == [op |-> "digits", lo |-> lo, hi |-> hi]

\* \d+
DigitsPlus == [op |-> "digits+"]

\* [c1c2...]
Class(chars) == [op |-> "class", chars |-> chars]

IsWordAt(s, i) == i >= 1 /\ i <= Len(s) /\ Char(s, i) \in WordChars

WordBoundary(s, i) == IsWordAt(s, i - 1) # IsWordAt(s, i)

LitEnds(w, s, i) ==
    IF i + Len(w) - 1 <= Len(s) /\ SubSeq(s, i, i + Len(w) - 1) = w
    THEN {i + Len(w)} ELSE {}

RunEnds(chars, lo, hi, s, i) ==
    {j \in (i + lo)..(i + hi) :
        j <= Len(s) + 1 /\ \A k \in i..(j - 1) : Char(s, k) \in chars}

RECURSIVE MatchEnds(_, _, _)
RECURSIVE SeqEnds(_, _, _, _)
MatchEnds(re, s, i) ==
    CASE re.op = "lit"    -> LitEnds(re.w, s, i)
      [] re.op = "words"  -> UNION {LitEnds(w, s, i) : w \in re.ws}
      [] re.op = "alt"    -> UNION {MatchEnds(re.rs[k], s, i) : k \in DOMAIN re.rs}
      [] re.op = "seq"    -> SeqEnds(re.rs, 1, s, {i})
      [] re.op = "opt"    -> {i} \cup MatchEnds(re.r, s, i)
      [] re.op = "wb"     -> IF WordBoundary(s, i) THEN {i} ELSE {}
      [] re.op = "ws"     -> RunEnds(Whitespace, re.min, Len(s), s, i)
      [] re.op = "any"    -> IF i <= Len(s) /\ Char(s, i) # "\n" THEN {i + 1} ELSE {}
      [] re.op = "digits" -> RunEnds(DigitChars, re.lo, re.hi, s, i)
      [] re.op = "digits+" -> RunEnds(DigitChars, 1, Len(s), s, i)
      [] re.op = "class"  -> IF i <= Len(s) /\ Char(s, i) \in re.chars THEN {i + 1} ELSE {}

SeqEnds(rs, k, s, starts) ==
    IF k > Len(rs) \/ starts = {} THEN starts
    ELSE SeqEnds(rs, k + 1, s, UNION {MatchEnds(rs[k], s, i) : i \in starts})

\* pattern.search(s) is not None
Search(re, s) == \E i \in 1..(Len(s) + 1) : MatchEnds(re, s, i) # {}

\* the start positions at which re matches, in s
MatchStarts(re, s) == {i \in 1..(Len(s) + 1) : MatchEnds(re, s, i) # {}}

Min(S) == CHOOSE x \in S : \A y \in S : x <= y

Max(S) == CHOOSE x \in S : \A y \in S : x >= y

(***************************************************************************)
(* Dates: datetime(y, m, d), timedelta(days), strftime and the comparison  *)
(* of date strings.                                                        *)
(***************************************************************************)
DecimalDigits == "0123456789"

DigitValue(c) == (CHOOSE k \in 1..10 : Char(DecimalDigits, k) = c) - 1

RECURSIVE ParseInt(_)
\* int(s) for a string of decimal digits
ParseInt(s) ==
    IF Len(s) = 0 THEN 0
    ELSE 10 * ParseInt(SubSeq(s, 1, Len(s) - 1)) + DigitValue(Char(s, Len(s)))

RECURSIVE IntToStr(_)
\* str(n) for n >= 0
IntToStr(n) ==
    IF n < 10 THEN Char(DecimalDigits, n + 1)
    ELSE IntToStr(n \div 10) \o Char(DecimalDigits, (n % 10) + 1)

\* n formatted with at least w digits
ZeroPad(n, w) == LET t == IntToStr(n) IN
    IF Len(t) >= w THEN t ELSE SubSeq("0000", 1, w - Len(t)) \o t

\* the ASCII characters from '-' (45) to 'Z' (90), in code point order
AsciiOrder == "-./0123456789:;<=>?@ABCDEFGHIJKLMNOPQRSTUVWXYZ"

Ord(c) == CHOOSE k \in 1..Len(AsciiOrder) : Char(AsciiOrder, k) = c

\* a < b on Python strings
StrLess(a, b) ==
    \/ Len(a) < Len(b) /\ SubSeq(b, 1, Len(a)) = a
    \/ \E i \in 1..Len(a) :
          /\ i <= Len(b)
          /\ SubSeq(a, 1, i - 1) = SubSeq(b, 1, i - 1)
          /\ Ord(Char(a, i)) < Ord(Char(b, i))

Date(y, m, d) == [year |-> y, month |-> m, day |-> d]

IsLeap(y) == (y % 4 = 0 /\ y % 100 # 0) \/ y % 400 = 0

DaysInMonth(y, m) ==
    IF m = 2 THEN (IF IsLeap(y) THEN 29 ELSE 28)
    ELSE IF m \in {4, 6, 9, 11} THEN 30 ELSE 31

MINYEAR == 1

MAXYEAR == 9999

\* datetime(y, m, d) does not raise ValueError
ValidDate(y, m, d) ==
    /\ y >= MINYEAR /\ y <= MAXYEAR
    /\ m >= 1 /\ m <= 12
    /\ d >= 1 /\ d <= DaysInMonth(y, m)

DaysBeforeYear(y) ==
    LET p == y - 1 IN p * 365 + (p \div 4) - (p \div 100) + (p \div 400)

RECURSIVE DaysBeforeMonth(_, _)
DaysBeforeMonth(y, m) ==
    IF m = 1 THEN 0 ELSE DaysBeforeMonth(y, m - 1) + DaysInMonth(y, m - 1)

\* date.toordinal()
ToOrdinal(dt) == DaysBeforeYear(dt.year) + DaysBeforeMonth(dt.year, dt.month) + dt.day

\* date.fromordinal(n), n >= 1
FromOrdinal(n) ==
    LET y == CHOOSE y \in (((n - 1) \div 366) + 1)..(((n - 1) \div 365) + 1) :
                 DaysBeforeYear(y) < n /\ n <= DaysBeforeYear(y + 1)
        r == n - DaysBeforeYear(y)
        m == CHOOSE m \in 1..12 :
                 DaysBeforeMonth(y, m) < r /\ r <= DaysBeforeMonth(y, m) + DaysInMonth(y, m)
    IN  Date(y, m, r - DaysBeforeMonth(y, m))

\* dt.strftime("%Y-%m-%d"); the C library decides whether %Y pads a year
\* below 1000 with zeros
Strftime(dt, pads) ==
    (IF pads THEN ZeroPad(dt.year, 4) ELSE IntToStr(dt.year))
        \o "-" \o ZeroPad(dt.month, 2) \o "-" \o ZeroPad(dt.day, 2)

(***************************************************************************)
(* QueryParser.                                                            *)
(***************************************************************************)
RECURSIVE SortedSeq(_)
\* the elements of a set of integers in ascending order
SortedSeq(S) == IF S = {} THEN <<>> ELSE <<Min(S)>> \o SortedSeq(S \ {Min(S)})

InSeq(x, seq) == \E k \in DOMAIN seq : seq[k] = x

RECURSIVE MentionedFrom(_, _, _, _)
\* the loop of extract_countries from the k-th known country on
MentionedFrom(available_countries, k, query_lower, mentioned) ==
    IF k > Len(available_countries) THEN mentioned
    ELSE LET country == available_countries[k]
             pattern == Cat(<<WB, Lit(Lower(country)), WB>>)
         IN  MentionedFrom(available_countries, k + 1, query_lower,
                 IF Search(pattern, query_lower) /\ ~InSeq(country, mentioned)
                 THEN Append(mentioned, country) ELSE mentioned)

extract_countries(q, available_countries) ==
    MentionedFrom(available_countries, 1, Lower(q), <<>>)

DateSep == Class({"-", "/"})

date_pattern ==
    Cat(<<WB, Digits(4, 4), DateSep, Digits(1, 2), DateSep, Digits(1, 2), WB>>)

\* the groups (year, month, day) of the match of date_pattern that starts at
\* i: the month is followed by a separator and the day by a word boundary,
\* which leaves one way to match
DateGroupsAt(s, i) ==
    LET Groups(m, d) ==
            <<SubSeq(s, i, i + 3), SubSeq(s, i + 5, m - 1), SubSeq(s, m + 1, d - 1)>>
        DayEnd(m) == CHOOSE e \in MatchEnds(Digits(1, 2), s, m + 1) : WordBoundary(s, e)
        From(m) == Groups(m, DayEnd(m))
    IN  From(CHOOSE e \in MatchEnds(Digits(1, 2), s, i + 5) :
                 MatchEnds(Cat(<<DateSep, Digits(1, 2), WB>>), s, e) # {})

\* re.findall(date_pattern, query); two matches never overlap
FindAllDates(s) ==
    LET Groups(starts) == [k \in DOMAIN starts |-> DateGroupsAt(s, starts[k])]
    IN  Groups(SortedSeq(MatchStarts(date_pattern, s)))

year_pattern == Cat(<<WB, Words({"19", "20"}), Digits(2, 2), WB>>)

\* [int(m.group(1) + m.group(2)) for m in re.finditer(year_pattern, query)]
YearValues(s) ==
    LET Values(starts) == [k \in DOMAIN starts |-> ParseInt(SubSeq(s, starts[k], starts[k] + 3))]
    IN  Values(SortedSeq(MatchStarts(year_pattern, s)))

Range(f) == {f[k] : k \in DOMAIN f}

DateRange(start, end) == [start |-> start, end |-> end]

\* an exception leaving extract_date_range
Raise(exc) == [raised |-> exc]

IsRaise(r) == "raised" \in DOMAIN r

\* Python's truth value of an Optional[str]
Truthy(x) == x # None /\ x # ""

\* lines 41-63: explicit dates
ExplicitDateRule(q, query_lower, pads) ==
    LET Parsed(dates) == [k \in DOMAIN dates |->
            Date(ParseInt(dates[k][1]), ParseInt(dates[k][2]), ParseInt(dates[k][3]))]
        Ordinals(parsed_dates) == {ToOrdinal(parsed_dates[k]) : k \in DOMAIN parsed_dates}
        Span(ordinals) == DateRange(Strftime(FromOrdinal(Min(ordinals)), pads),
                                    Strftime(FromOrdinal(Max(ordinals)), pads))
        Rule(parsed_dates) ==
            IF Len(parsed_dates) = 0 THEN DateRange(None, None)
            ELSE IF \E k \in DOMAIN parsed_dates :
                       ~ValidDate(parsed_dates[k].year, parsed_dates[k].month, parsed_dates[k].day)
            THEN DateRange(None, None)          \* except ValueError: pass
            ELSE IF Len(parsed_dates) = 1
            THEN IF Contains(query_lower, "from") \/ Contains(query_lower, "since")
                 THEN DateRange(Strftime(parsed_dates[1], pads), None)
                 ELSE IF \/ Contains(query_lower, "until") \/ Contains(query_lower, "to")
                         \/ Contains(query_lower, "before")
                 THEN DateRange(None, Strftime(parsed_dates[1], pads))
                 ELSE DateRange(Strftime(parsed_dates[1], pads), None)
            ELSE Span(Ordinals(parsed_dates))
    IN  Rule(Parsed(FindAllDates(q)))

\* f"{year}-01-01"
YearStart(year) == IntToStr(year) \o "-01-01"

\* f"{year}-12-31"
YearEnd(year) == IntToStr(year) \o "-12-31"

\* lines 65-83: year-only references, tried when no explicit date matched
BareYearRule(q, query_lower, r) ==
    LET Rule(year_values) ==
            IF Len(year_values) = 0 THEN r
            ELSE IF Contains(query_lower, "from") \/ Contains(query_lower, "since")
            THEN DateRange(YearStart(Min(Range(year_values))), r.end)
            ELSE IF Len(year_values) = 1
            THEN DateRange(YearStart(year_values[1]), YearEnd(year_values[1]))
            ELSE DateRange(YearStart(Min(Range(year_values))), YearEnd(Max(Range(year_values))))
    IN  IF Len(FindAllDates(q)) # 0 THEN r ELSE Rule(YearValues(q))

RelativeUnits == <<"year", "years", "month", "months", "day", "days">>

relative_pattern(word) ==
    Cat(<<Lit(word), WS1, DigitsPlus, WS1, Words(Range(RelativeUnits))>>)

\* the groups (amount, unit) of the leftmost match of relative_pattern(word)
RelativeGroups(word, s) ==
    LET Unit(c) == Min({k \in DOMAIN RelativeUnits : LitEnds(RelativeUnits[k], s, c) # {}})
        UnitStart(b) == CHOOSE e \in MatchEnds(WS1, s, b) :
                            MatchEnds(Words(Range(RelativeUnits)), s, e) # {}
        Groups(a, b) == [amount |-> ParseInt(SubSeq(s, a, b - 1)),
                         unit |-> RelativeUnits[Unit(UnitStart(b))]]
        AmountEnd(a) == CHOOSE e \in MatchEnds(DigitsPlus, s, a) :
                            MatchEnds(Cat(<<WS1, Words(Range(RelativeUnits))>>), s, e) # {}
        From(a) == Groups(a, AmountEnd(a))
        AmountStart(i) == CHOOSE e \in MatchEnds(WS1, s, i + Len(word)) :
                 MatchEnds(Cat(<<DigitsPlus, WS1, Words(Range(RelativeUnits))>>), s, e) # {}
    IN  From(AmountStart(Min(MatchStarts(relative_pattern(word), s))))

\* the largest timedelta(days=...)
MaxTimedeltaDays == 999999999

\* the relative rule applied only when no earlier rule has set a start
RelativeRule_unless_set(word, query_lower, now, pads, r) ==
    IF ~Search(relative_pattern(word), query_lower) \/ Truthy(r.start) THEN r
    ELSE LET Days(g) == IF Contains(g.unit, "year") THEN 365 * g.amount
                        ELSE IF Contains(g.unit, "month") THEN 30 * g.amount
                        ELSE g.amount
             Rule(days) ==
                 IF days > MaxTimedeltaDays \/ ToOrdinal(now) - days < 1
                 THEN Raise("OverflowError")
                 ELSE DateRange(Strftime(FromOrdinal(ToOrdinal(now) - days), pads),
                                Strftime(now, pads))
         IN  Rule(Days(RelativeGroups(word, query_lower)))

\* the relative rule leaving an end that an earlier rule has set
RelativeRule_keeping_end(word, query_lower, now, pads, r) ==
    IF ~Search(relative_pattern(word), query_lower) THEN r
    ELSE LET Days(g) == IF Contains(g.unit, "year") THEN 365 * g.amount
                        ELSE IF Contains(g.unit, "month") THEN 30 * g.amount
                        ELSE g.amount
             Rule(days) ==
                 IF days > MaxTimedeltaDays \/ ToOrdinal(now) - days < 1
                 THEN Raise("OverflowError")
                 ELSE DateRange(Strftime(FromOrdinal(ToOrdinal(now) - days), pads),
                                IF Truthy(r.end) THEN r.end ELSE Strftime(now, pads))
         IN  Rule(Days(RelativeGroups(word, query_lower)))

\* lines 89-100 and 102-113: "last N unit" and "past N unit"
RelativeRule(word, query_lower, now, pads, r) ==
    IF ~Search(relative_pattern(word), query_lower) THEN r
    ELSE LET Days(g) == IF Contains(g.unit, "year") THEN 365 * g.amount
                        ELSE IF Contains(g.unit, "month") THEN 30 * g.amount
                        ELSE g.amount
             Rule(days) ==
                 IF days > MaxTimedeltaDays \/ ToOrdinal(now) - days < 1
                 THEN Raise("OverflowError")
                 ELSE DateRange(Strftime(FromOrdinal(ToOrdinal(now) - days), pads),
                                Strftime(now, pads))
         IN  Rule(Days(RelativeGroups(word, query_lower)))

in_year_pattern == Cat(<<Words({"in", "during"}), WS1, Digits(4, 4)>>)

\* the group (year) of the leftmost match of in_year_pattern
InYearGroup(s) ==
    LET Group(y) == SubSeq(s, y, y + 3)
        YearStartsAt(w) == CHOOSE e \in MatchEnds(WS1, s, w) : MatchEnds(Digits(4, 4), s, e) # {}
        WordEnd(i) == CHOOSE e \in MatchEnds(Words({"in", "during"}), s, i) :
                          MatchEnds(Cat(<<WS1, Digits(4, 4)>>), s, e) # {}
    IN  Group(YearStartsAt(WordEnd(Min(MatchStarts(in_year_pattern, s)))))

\* lines 115-121: "in YYYY", "during YYYY"
InYearRule(query_lower, r) ==
    IF Search(in_year_pattern, query_lower) /\ ~Truthy(r.start)
    THEN LET Year(year) == DateRange(YearStart(year), YearEnd(year))
         IN  Year(ParseInt(InYearGroup(query_lower)))
    ELSE r

\* lines 123-134: the dates are kept within the available range
ClampToAvailable(r, self_start_date, self_end_date) ==
    LET Start(s1) == IF Truthy(r.start) /\ StrLess(self_end_date, s1) THEN None ELSE s1
        End(e1) == IF Truthy(r.end) /\ StrLess(e1, self_start_date) THEN None ELSE e1
    IN  DateRange(Start(IF Truthy(r.start) /\ StrLess(r.start, self_start_date)
                        THEN self_start_date ELSE r.start),
                  End(IF Truthy(r.end) /\ StrLess(self_end_date, r.end)
                      THEN self_end_date ELSE r.end))

\* lines 41-113: the explicit-date, the bare-year and the two relative rules
RulesBeforeInYear(q, query_lower, now, pads) ==
    LET Past(r) == IF IsRaise(r) THEN r
                   ELSE RelativeRule("past", query_lower, now, pads, r)
        Last(r) == RelativeRule("last", query_lower, now, pads, r)
        Years(r) == BareYearRule(q, query_lower, r)
    IN  Past(Last(Years(ExplicitDateRule(q, query_lower, pads))))

extract_date_range(q, self_start_date, self_end_date, now, pads) ==
    LET Clamped(r) ==
            IF IsRaise(r) THEN r
            ELSE ClampToAvailable(r, self_start_date, self_end_date)
        Rules(query_lower) ==
            LET InYear(r) == IF IsRaise(r) THEN r ELSE InYearRule(query_lower, r)
            IN  InYear(RulesBeforeInYear(q, query_lower, now, pads))
    IN  Clamped(Rules(Lower(q)))

\* parse_query filling each unset bound from the available range
parse_query_filling_each(q, available_countries, self_start_date, self_end_date, now, pads) ==
    LET Parsed(countries, r) ==
            IF IsRaise(r) THEN r
            ELSE [countries |-> countries,
                  date_range |-> DateRange(IF Truthy(r.start) THEN r.start ELSE self_start_date,
                                           IF Truthy(r.end) THEN r.end ELSE self_end_date)]
    IN  Parsed(extract_countries(q, available_countries),
               extract_date_range(q, self_start_date, self_end_date, now, pads))

\* lines 138-153
parse_query(q, available_countries, self_start_date, self_end_date, now, pads) ==
    LET Parsed(countries, r) ==
            IF IsRaise(r) THEN r
            ELSE IF ~Truthy(r.start) /\ ~Truthy(r.end)
            THEN [countries |-> countries,
                  date_range |-> DateRange(self_start_date, self_end_date)]
            ELSE [countries |-> countries, date_range |-> r]
    IN  Parsed(extract_countries(q, available_countries),
               extract_date_range(q, self_start_date, self_end_date, now, pads))

(***************************************************************************)
(* GuardrailService: the three pattern families and the bulk heuristic.    *)
(***************************************************************************)
data_extraction_patterns == <<
    Cat(<<WB, Words({"all", "full", "entire", "complete"}), WS1,
          Alt(<<Words({"data", "dataset", "database"}),
                Cat(<<Lit("time"), Opt(AnyChar), Lit("series")>>)>>)>>),
    Cat(<<WB, Words({"download", "export", "dump", "extract", "get"}), WS1,
          Words({"all", "everything", "full", "complete"})>>),
    Cat(<<WB, Words({"csv", "json", "excel", "spreadsheet"}), WS1,
          Words({"of", "with", "containing"})>>),
    Cat(<<WB, Words({"raw", "source", "underlying", "original"}), WS1,
          Words({"data", "values", "numbers"})>>),
    Cat(<<WB, Words({"all", "every"}), WS1, Words({"country", "nation"})>>),
    Cat(<<WB, Words({"bulk", "mass", "batch"}), WS1,
          Words({"data", "extract", "download"})>>),
    Cat(<<WB, Words({"replicate", "copy", "clone"}), WS1,
          Words({"data", "database"})>>) >>

reverse_engineering_patterns == <<
    Cat(<<WB, Words({"how", "what", "which", "where"}), WS1,
          Words({"is", "are", "was", "were"}), WS1,
          Opt(Words({"the", "this", "your", "our", "all"})), WS0,
          Words({"data", "sentiment"}), WS1,
          Words({"collected", "gathered", "obtained", "sourced", "generated"})>>),
    Cat(<<WB, Words({"method", "methodology", "algorithm", "formula",
                     "calculation", "computation"}), WS1,
          Words({"for", "of", "used", "to"})>>),
    Cat(<<WB, Words({"data", "sentiment"}), WS1,
          Words({"source", "provider", "origin", "collection", "pipeline"})>>),
    Cat(<<WB, Words({"api", "endpoint", "service"}), WS1,
          Words({"that", "which", "used", "for"})>>),
    Cat(<<WB, Words({"underlying", "proprietary", "internal", "secret"}), WS1,
          Words({"method", "algorithm", "formula", "process", "data"})>>),
    Cat(<<WB, Alt(<<Cat(<<Lit("back"), Opt(AnyChar), Lit("engineer")>>),
                    Cat(<<Lit("reverse"), Opt(AnyChar), Lit("engineer")>>),
                    Cat(<<Lit("figure"), Opt(AnyChar), Lit("out")>>)>>), WS1,
          Words({"how", "what", "the"})>>),
    Cat(<<WB, Words({"derive", "calculate", "compute"}), WS1,
          Words({"from", "using", "with"}), WS1,
          Words({"source", "raw", "original"})>>) >>

unethical_patterns == <<
    Cat(<<WB, Words({"manipulate", "exploit", "target"}), WS1,
          Words({"market", "election", "public", "opinion"})>>),
    Cat(<<WB, Words({"compare", "rank"}), WS1, Words({"countries", "nations"}), WS1,
          Alt(<<Lit("by"), Cat(<<Lit("based"), AnyChar, Lit("on")>>)>>), WS1,
          Words({"race", "religion", "ethnicity"})>>),
    Cat(<<WB, Words({"vulnerable", "weak", "poor"}), WS1,
          Alt(<<Cat(<<Lit("population"), Opt(Lit("s"))>>),
                Cat(<<Lit("countrie"), Opt(Lit("s"))>>),
                Cat(<<Lit("group"), Opt(Lit("s"))>>)>>)>>),
    Cat(<<WB, Words({"identify", "find", "locate"}), WS1,
          Words({"vulnerable", "weak", "target"})>>),
    Cat(<<WB, Words({"incite", "promote", "encourage"}), WS1,
          Words({"violence", "hatred", "discrimination"})>>),
    Cat(<<WB, Words({"discriminatory", "harmful", "offensive"}), WS1,
          Words({"comparison", "analysis", "chart"})>>) >>

broad_time_patterns == <<
    Cat(<<WB, Lit("all"), WS1, Words({"time", "history", "data", "years"})>>),
    Cat(<<WB, Words({"entire", "full", "complete"}), WS1,
          Words({"history", "period", "range"})>>),
    Cat(<<WB, Alt(<<Cat(<<Lit("19"), Digits(2, 2)>>), Cat(<<Lit("20"), Digits(2, 2)>>)>>),
          WS1, Lit("to"), WS1,
          Alt(<<Cat(<<Lit("19"), Digits(2, 2)>>), Cat(<<Lit("20"), Digits(2, 2)>>)>>)>>) >>

\* any(pattern.search(s) for pattern in family)
AnyPatternMatches(family, s) == \E k \in DOMAIN family : Search(family[k], s)

\* The heuristic counts country keywords but decides on the time patterns alone.
_is_bulk_request(q) ==
    LET country_keywords == {"country", "nation", "all countries", "every country"}
        country_count == Cardinality({kw \in country_keywords : Contains(q, kw)})
    IN  AnyPatternMatches(broad_time_patterns, q)

ReasonDataExtraction ==
    "Requests for bulk data extraction or complete datasets are not permitted. Please request specific insights or time periods instead."

ReasonReverseEngineering ==
    "Questions about data collection methods, algorithms, or proprietary methodologies cannot be answered. I can help with analytical insights instead."

ReasonUnethical ==
    "This query may promote unethical use of data. Please rephrase your request to focus on legitimate analytical insights."

ReasonBulk ==
    "Requests for large amounts of data are not permitted. Please specify a particular country or time period of interest."

Verdict(allowed, reason, category) ==
    [allowed |-> allowed, reason |-> reason, category |-> category]

\* validate_query with the reverse-engineering family tried first
validate_query_reordered(q) ==
    LET query_lower == Lower(q) IN
    IF AnyPatternMatches(reverse_engineering_patterns, query_lower)
    THEN Verdict(FALSE, ReasonReverseEngineering, "reverse_engineering")
    ELSE IF AnyPatternMatches(data_extraction_patterns, query_lower)
    THEN Verdict(FALSE, ReasonDataExtraction, "data_extraction")
    ELSE IF AnyPatternMatches(unethical_patterns, query_lower)
    THEN Verdict(FALSE, ReasonUnethical, "unethical")
    ELSE IF _is_bulk_request(query_lower)
    THEN Verdict(FALSE, ReasonBulk, "data_extraction")
    ELSE Verdict(TRUE, None, "allowed")

\* validate_query without the heuristic check
validate_query_no_heuristic(q) ==
    LET query_lower == Lower(q) IN
    IF AnyPatternMatches(data_extraction_patterns, query_lower)
    THEN Verdict(FALSE, ReasonDataExtraction, "data_extraction")
    ELSE IF AnyPatternMatches(reverse_engineering_patterns, query_lower)
    THEN Verdict(FALSE, ReasonReverseEngineering, "reverse_engineering")
    ELSE IF AnyPatternMatches(unethical_patterns, query_lower)
    THEN Verdict(FALSE, ReasonUnethical, "unethical")
    ELSE Verdict(TRUE, None, "allowed")

validate_query(q) ==
    LET query_lower == Lower(q) IN
    IF AnyPatternMatches(data_extraction_patterns, query_lower)
    THEN Verdict(FALSE, ReasonDataExtraction, "data_extraction")
    ELSE IF AnyPatternMatches(reverse_engineering_patterns, query_lower)
    THEN Verdict(FALSE, ReasonReverseEngineering, "reverse_engineering")
    ELSE IF AnyPatternMatches(unethical_patterns, query_lower)
    THEN Verdict(FALSE, ReasonUnethical, "unethical")
    ELSE IF _is_bulk_request(query_lower)
    THEN Verdict(FALSE, ReasonBulk, "data_extraction")
    ELSE Verdict(TRUE, None, "allowed")

(***************************************************************************)
(* GuardrailService.sanitize_response and prompt_templates.sanitize_response*)
(***************************************************************************)
RECURSIVE FloorLog2(_)
FloorLog2(n) == IF n <= 1 THEN 0 ELSE 1 + FloorLog2(n \div 2)

\* The double nearest to n * 0.7 is below the real product exactly when
\* 7n/10 is an integer K and the representation error of 0.7 (0.4 * 2^-53
\* per unit) exceeds half the spacing of doubles below K.
ProductRoundsBelow(n) ==
    /\ n % 10 = 0 /\ n > 0
    /\ 4 * (n \div 10) > 2 ^ FloorLog2(7 * (n \div 10))

\* numeric_count > len(parts) * 0.7, in double arithmetic
ExceedsSeventyPercent(numeric_count, n) ==
    IF ProductRoundsBelow(n) THEN 10 * numeric_count >= 7 * n
    ELSE 10 * numeric_count > 7 * n

\* p.strip().replace('.', '').replace('-', '').isdigit()
IsNumericPart(p) == IsDigit(RemoveChar(RemoveChar(Strip(p), "."), "-"))

NumericCount(parts) == Cardinality({i \in 1..Len(parts) : IsNumericPart(parts[i])})

\* the `continue` branch taken only for more than 7 fields
GuardrailDropsLine_over_seven(line) ==
    /\ Contains(line, ",")
    /\ LET parts == Split(line, ",") IN
          /\ Len(parts) > 7
          /\ ExceedsSeventyPercent(NumericCount(parts), Len(parts))

\* the `continue` branch of GuardrailService.sanitize_response
GuardrailDropsLine(line) ==
    /\ Contains(line, ",")
    /\ LET parts == Split(line, ",") IN
          /\ Len(parts) > 5
          /\ ExceedsSeventyPercent(NumericCount(parts), Len(parts))

\* the `continue` branch of prompt_templates.sanitize_response
TemplateDropsLine(line) ==
    /\ Contains(line, ",") /\ CountChar(line, ",") > 5
    /\ LET parts == Split(line, ",") IN
          ExceedsSeventyPercent(NumericCount(parts), Len(parts))

GuardrailService_sanitize_response(response) ==
    Join(SelectSeq(Split(response, "\n"), LAMBDA line : ~GuardrailDropsLine(line)), "\n")

\* utils.prompt_templates.sanitize_response
sanitize_response(response) ==
    Join(SelectSeq(Split(response, "\n"), LAMBDA line : ~TemplateDropsLine(line)), "\n")

(***************************************************************************)
(* GuardrailService.check_rate_limit.  Times are seconds.                  *)
(***************************************************************************)
\* s[:n]
Truncate(s, n) == IF Len(s) <= n THEN s ELSE SubSeq(s, 1, n)

\* q.get('timestamp', now)
TimestampOf(q, now) == IF "timestamp" \in DOMAIN q THEN q.timestamp ELSE now

\* q.get('query', '')
QueryOf(q) == IF "query" \in DOMAIN q THEN q.query ELSE ""

ReasonRateLimit ==
    "Rate limit exceeded. Please wait a moment before making another request."

ReasonRepetitive ==
    "Please vary your queries. Repeated similar requests may indicate automated scraping."

RateResult(allowed, reason) == [allowed |-> allowed, reason |-> reason]

\* check_rate_limit comparing the whole query texts
check_rate_limit_untruncated(history, now) ==
    LET one_minute_ago == now - 60
        recent_queries == SelectSeq(history, LAMBDA q : TimestampOf(q, now) > one_minute_ago)
        query_texts == {QueryOf(recent_queries[i]) : i \in DOMAIN recent_queries}
    IN  IF Len(recent_queries) >= 10 THEN RateResult(FALSE, ReasonRateLimit)
        ELSE IF Len(recent_queries) >= 5 /\ Cardinality(query_texts) <= 2
        THEN RateResult(FALSE, ReasonRepetitive)
        ELSE RateResult(TRUE, None)

check_rate_limit(history, now) ==
    LET one_minute_ago == now - 60
        recent_queries == SelectSeq(history, LAMBDA q : TimestampOf(q, now) > one_minute_ago)
        query_texts == {Truncate(QueryOf(recent_queries[i]), 50) : i \in DOMAIN recent_queries}
    IN  IF Len(recent_queries) >= 10 THEN RateResult(FALSE, ReasonRateLimit)
        ELSE IF Len(recent_queries) >= 5 /\ Cardinality(query_texts) <= 2
        THEN RateResult(FALSE, ReasonRepetitive)
        ELSE RateResult(TRUE, None)

(***************************************************************************)
(* Specification SpecGuard: validate_query applied to a query.             *)
(***************************************************************************)
\* bound: number of fragments a query is made of
MaxFragments == 2

QueryFragments == {
    "Show me sentiment for France",
    "Download all data as CSV",
    "How is the data collected?",
    "raw", "data source", "weak countries", "all", "time", "countries",
    "every nation", "2019 to 2021", "overall" }

RECURSIVE Queries(_)
Queries(n) ==
    IF n <= 1 THEN QueryFragments
    ELSE Queries(n - 1) \cup {q \o " " \o f : q \in Queries(n - 1), f \in QueryFragments}

\* verdict before validate_query has returned
NoVerdict == Verdict(FALSE, None, "not_called")

GuardIdle == query = "" /\ verdict = NoVerdict

SanitizeIdle == response_text = "" /\ sanitized = <<>>

RateIdle == query_history = <<>> /\ rate_now = 0 /\ rate_result = <<>>

ParserIdle ==
    /\ parser_query = "" /\ self_available_countries = <<>> /\ self_date_range = <<"", "">>
    /\ datetime_now = Date(1, 1, 1) /\ pads_year = FALSE /\ parser_result = <<>>

EmptyDict == [k \in {} |-> 0]

\* ActivityTracker.__init__
NewTracker ==
    [queries |-> <<>>, sessions |-> EmptyDict, country_mentions |-> EmptyDict,
     query_types |-> EmptyDict, daily_usage |-> EmptyDict, blocked_queries |-> EmptyDict]

HostIdle ==
    /\ ENABLE_GUARDRAILS = TRUE /\ sessions = EmptyDict /\ tracker = NewTracker
    /\ clock = 0 /\ request = <<>> /\ trace = <<>> /\ process_result = <<>>
    /\ outcome = <<>>

DataIdle == ds_call = <<>> /\ ds_result = <<>> /\ caller_list = <<>>

StatsIdle ==
    /\ df = <<>> /\ stats_call = <<>> /\ stats_result = <<>>
    /\ ds_countries = <<>> /\ ds_date_range = <<"", "">>
    /\ DataIdle

InitGuard ==
    /\ query \in Queries(MaxFragments)
    /\ verdict = NoVerdict
    /\ SanitizeIdle /\ RateIdle /\ ParserIdle /\ HostIdle /\ StatsIdle

ValidateQuery ==
    /\ verdict = NoVerdict
    /\ verdict' = validate_query(query)
    /\ UNCHANGED <<query, sanitizeVars, rateVars, parserVars, hostVars, statsVars>>

NextGuard == ValidateQuery

SpecGuard == InitGuard /\ [][NextGuard]_vars

\* which families and heuristic the (lower-cased) query matches
MatchesDataExtraction(q) == AnyPatternMatches(data_extraction_patterns, Lower(q))

MatchesReverseEngineering(q) == AnyPatternMatches(reverse_engineering_patterns, Lower(q))

MatchesUnethical(q) == AnyPatternMatches(unethical_patterns, Lower(q))

MatchesBulkHeuristic(q) == _is_bulk_request(Lower(q))

\* C1: the verdict is that of the earliest matching family in the order
\* data-extraction, reverse-engineering, unethical, bulk heuristic; the
\* heuristic's verdict is reported only when none of the three families matched.
C1_FirstMatchWins ==
    verdict # NoVerdict =>
        LET de == MatchesDataExtraction(query)
            re == MatchesReverseEngineering(query)
            un == MatchesUnethical(query)
        IN  /\ de => verdict = Verdict(FALSE, ReasonDataExtraction, "data_extraction")
            /\ (~de /\ re) =>
                   verdict = Verdict(FALSE, ReasonReverseEngineering, "reverse_engineering")
            /\ (~de /\ ~re /\ un) => verdict = Verdict(FALSE, ReasonUnethical, "unethical")
            /\ verdict.reason = ReasonBulk =>
                   (~de /\ ~re /\ ~un /\ MatchesBulkHeuristic(query))

\* a validated query that matches patterns of two families and the heuristic
C1_Witness ==
    /\ verdict # NoVerdict
    /\ MatchesDataExtraction(query)
    /\ MatchesReverseEngineering(query)
    /\ MatchesBulkHeuristic(query)
    /\ verdict.category = "data_extraction"

\* C2: the verdict is well formed: allowed iff reason is None iff category is
\* "allowed"; a blocked verdict has a non-empty reason and a blocking category;
\* and the query is allowed exactly when no family and no heuristic matches.
C2_VerdictWellFormed ==
    verdict # NoVerdict =>
        /\ verdict.allowed \in BOOLEAN
        /\ verdict.allowed <=> (verdict.reason = None)
        /\ verdict.allowed <=> (verdict.category = "allowed")
        /\ ~verdict.allowed =>
              /\ verdict.reason # None /\ Len(verdict.reason) > 0
              /\ verdict.category \in {"data_extraction", "reverse_engineering", "unethical"}
        /\ verdict.allowed <=>
              ~(\/ MatchesDataExtraction(query)
                \/ MatchesReverseEngineering(query)
                \/ MatchesUnethical(query)
                \/ MatchesBulkHeuristic(query))

\* a query blocked by the bulk heuristic alone
C2_Witness ==
    /\ verdict # NoVerdict
    /\ ~verdict.allowed
    /\ verdict.reason = ReasonBulk
    /\ ~MatchesDataExtraction(query)

(***************************************************************************)
(* Specification SpecSanitize: GuardrailService.sanitize_response applied  *)
(* to a generated text.                                                    *)
(***************************************************************************)
\* bound: number of comma-separated fields of a generated line
MaxFields == 90

\* bound: number of lines of a generated text
MaxLines == 2

\* a line of n fields, the first k of them numeric
CsvLine(k, n) == Join([i \in 1..n |-> IF i <= k THEN "7" ELSE "x"], ",")

CsvLines == UNION {{CsvLine(k, n) : k \in 0..n} : n \in 1..MaxFields}

SanitizeLines == {
    "",
    "Sentiment rose, then fell.",
    "2020,1.5,-2,3,4,5,France",
    "2020,a,1.5,b,3,c,4",
    "1,2,3,4,5",
    " 1 , 2 ,3,4,5,x",
    "a,b,7,7,7,7",
    "1-2,1.2.3,--5.,x,6,7" }

RECURSIVE Texts(_)
Texts(n) ==
    IF n <= 1 THEN SanitizeLines
    ELSE Texts(n - 1) \cup {t \o "\n" \o l : t \in Texts(n - 1), l \in SanitizeLines}

InitSanitize ==
    /\ response_text \in CsvLines \cup Texts(MaxLines)
    /\ sanitized = <<>>
    /\ GuardIdle /\ RateIdle /\ ParserIdle /\ HostIdle /\ StatsIdle

SanitizeResponse ==
    /\ sanitized = <<>>
    /\ sanitized' = <<GuardrailService_sanitize_response(response_text)>>
    /\ UNCHANGED <<response_text, guardVars, rateVars, parserVars, hostVars, statsVars>>

NextSanitize == SanitizeResponse

SpecSanitize == InitSanitize /\ [][NextSanitize]_vars

(***************************************************************************)
(* Specification SpecFilters: the two filters of process_query, lines      *)
(* 103-105, applied in turn to a generated text, and the second once more. *)
(***************************************************************************)
InitFilters ==
    /\ response_text \in CsvLines \cup Texts(MaxLines)
    /\ sanitized = <<>>
    /\ GuardIdle /\ RateIdle /\ ParserIdle /\ HostIdle /\ StatsIdle

\* line 104: sanitized_response = sanitize_response(llm_response)
TemplateSanitize ==
    /\ sanitized = <<>>
    /\ sanitized' = <<sanitize_response(response_text)>>
    /\ UNCHANGED <<response_text, guardVars, rateVars, parserVars, hostVars, statsVars>>

\* line 105: sanitized_response =
\* self.guardrail_service.sanitize_response(sanitized_response); each text
\* is kept
GuardrailSanitize ==
    /\ Len(sanitized) \in {1, 2}
    /\ sanitized' = Append(sanitized,
                           GuardrailService_sanitize_response(sanitized[Len(sanitized)]))
    /\ UNCHANGED <<response_text, guardVars, rateVars, parserVars, hostVars, statsVars>>

NextFilters == TemplateSanitize \/ GuardrailSanitize

SpecFilters == InitFilters /\ [][NextFilters]_vars

\* more than 70% of the fields of the line are numeric
MoreThanSeventyPercentNumeric(parts) == 10 * NumericCount(parts) > 7 * Len(parts)

\* the line is one the claim says is removed
ClaimedRemoved(line) ==
    /\ Contains(line, ",")
    /\ Len(Split(line, ",")) > 5
    /\ MoreThanSeventyPercentNumeric(Split(line, ","))

\* C9: sanitize_response removes exactly the lines that contain a comma, split
\* into more than 5 fields and have more than 70% numeric fields; the other
\* lines are kept unchanged and in order.
C9_RemovesExactlyCsvLines ==
    sanitized # <<>> =>
        sanitized[1] = Join(SelectSeq(Split(response_text, "\n"),
                                      LAMBDA line : ~ClaimedRemoved(line)), "\n")

(***************************************************************************)
(* Specification SpecRate: check_rate_limit applied to a query history.    *)
(***************************************************************************)
\* bound: number of entries of a query history
MaxHistory == 10

RateNow == 3600

\* 50 characters
FiftyChars == "Show me the sentiment trend for France and Germany"

\* the kinds of history entry: stale, on the window's edge, recent with
\* short and long texts, without timestamp, without query
EntryKinds == <<
    [query |-> "A", timestamp |-> RateNow - 61],
    [query |-> "B", timestamp |-> RateNow - 60],
    [query |-> "A", timestamp |-> RateNow - 59],
    [query |-> "B", timestamp |-> RateNow],
    [query |-> FiftyChars \o " in 2020", timestamp |-> RateNow - 1],
    [query |-> FiftyChars \o " in 2021", timestamp |-> RateNow - 30],
    [query |-> "C"],
    [timestamp |-> RateNow - 2] >>

Repeat(e, c) == [i \in 1..c |-> e]

RECURSIVE HistoriesFrom(_, _)
\* the histories of at most `room` entries made of kinds k, k+1, ...
HistoriesFrom(k, room) ==
    IF k > Len(EntryKinds) THEN {<<>>}
    ELSE UNION {{Repeat(EntryKinds[k], c) \o h : h \in HistoriesFrom(k + 1, room - c)} :
                c \in 0..room}

InitRate ==
    /\ query_history \in HistoriesFrom(1, MaxHistory)
    /\ rate_now = RateNow
    /\ rate_result = <<>>
    /\ GuardIdle /\ SanitizeIdle /\ ParserIdle /\ HostIdle /\ StatsIdle

CheckRateLimit ==
    /\ rate_result = <<>>
    /\ rate_result' = <<check_rate_limit(query_history, rate_now)>>
    /\ UNCHANGED <<query_history, rate_now, guardVars, sanitizeVars, parserVars, hostVars, statsVars>>

NextRate == CheckRateLimit

SpecRate == InitRate /\ [][NextRate]_vars

\* the entries in the trailing 60 seconds; an entry without timestamp is
\* taken at the time of the call
RecentEntries ==
    {i \in DOMAIN query_history :
        IF "timestamp" \in DOMAIN query_history[i]
        THEN query_history[i].timestamp > rate_now - 60
        ELSE TRUE}

RecentTexts ==
    {Truncate(IF "query" \in DOMAIN query_history[i] THEN query_history[i].query ELSE "", 50) :
        i \in RecentEntries}

\* C8: check_rate_limit blocks exactly when there are >= 10 entries in the
\* trailing 60 seconds, or >= 5 with at most 2 distinct 50-character texts;
\* otherwise it returns allowed with reason None.
C8_RateLimitRule ==
    rate_result # <<>> =>
        LET n == Cardinality(RecentEntries)
            exceeded == n >= 10
            repetitive == n >= 5 /\ Cardinality(RecentTexts) <= 2
        IN  /\ rate_result[1].allowed <=> ~(exceeded \/ repetitive)
            /\ rate_result[1].allowed => rate_result[1].reason = None
            /\ exceeded => rate_result[1].reason = ReasonRateLimit
            /\ (~exceeded /\ repetitive) => rate_result[1].reason = ReasonRepetitive
            /\ n < 5 => rate_result[1].allowed

\* a history blocked as repetitive although its full texts have 3 values
C8_Witness ==
    /\ rate_result # <<>>
    /\ rate_result[1].reason = ReasonRepetitive
    /\ Cardinality(RecentEntries) < 10
    /\ Cardinality({QueryOf(query_history[i]) : i \in RecentEntries}) > 2

(***************************************************************************)
(* Specification SpecParser: extract_countries, extract_date_range and     *)
(* parse_query applied to a query.                                         *)
(***************************************************************************)
\* bound: number of fragments of a query about countries
MaxMentions == 3

\* bound: number of fragments of a query about dates
MaxDateParts == 2

CountryFragments ==
    {"Compare", "france", "France", "with", "Germany", "GERMANY", "Nigeria", "Niger",
     "United States"}

DateFragments ==
    {"sentiment", "from", "history", "until", "2020-03-15", "2009/6/30", "2026-01-01",
     "2020-13-45", "in 2021", "in 0200", "2019", "1985", "last 2 years",
     "past 6 months", "last 3000 years", "Spain 2022", "since", "before", "to",
     "from today until", "before 2009/6/30"}

RECURSIVE Phrases(_, _)
\* the queries made of at most n fragments
Phrases(fragments, n) ==
    IF n <= 1 THEN fragments
    ELSE Phrases(fragments, n - 1)
            \cup {q \o " " \o f : q \in Phrases(fragments, n - 1), f \in fragments}

CountryLists ==
    {<<"France", "Germany", "Niger", "Nigeria", "United States">>,
     <<"United States", "Nigeria", "Germany", "France">>}

DataRange == <<"1990-06-15", "2024-12-31">>

Today == Date(2026, 11, 3)

InitParser ==
    /\ \/ /\ parser_query \in Phrases(CountryFragments, MaxMentions)
          /\ self_available_countries \in CountryLists
          /\ pads_year = FALSE
       \/ /\ parser_query \in Phrases(DateFragments, MaxDateParts)
          /\ self_available_countries = <<"France", "Germany">>
          /\ pads_year \in BOOLEAN
    /\ self_date_range = DataRange
    /\ datetime_now = Today
    /\ parser_result = <<>>
    /\ GuardIdle /\ SanitizeIdle /\ RateIdle /\ HostIdle /\ StatsIdle

ParserReturns(op, value) ==
    /\ parser_result = <<>>
    /\ parser_result' = <<[op |-> op, value |-> value]>>
    /\ UNCHANGED <<parser_query, self_available_countries, self_date_range, datetime_now, pads_year>>
    /\ UNCHANGED <<guardVars, sanitizeVars, rateVars, hostVars, statsVars>>

ExtractCountries ==
    ParserReturns("extract_countries", extract_countries(parser_query, self_available_countries))

ExtractDateRange ==
    ParserReturns("extract_date_range",
        extract_date_range(parser_query, self_date_range[1], self_date_range[2], datetime_now, pads_year))

ParseQuery ==
    ParserReturns("parse_query",
        parse_query(parser_query, self_available_countries, self_date_range[1], self_date_range[2],
                    datetime_now, pads_year))

NextParser == ExtractCountries \/ ExtractDateRange \/ ParseQuery

SpecParser == InitParser /\ [][NextParser]_vars

Returned(op) == parser_result # <<>> /\ parser_result[1].op = op

\* the known country occurs in the query as a whole word, in any letter case
OccursAsWord(country, q) == Search(Cat(<<WB, Lit(Lower(country)), WB>>), Lower(q))

\* where the country is first mentioned in the query
FirstMention(country, q) == Min(MatchStarts(Cat(<<WB, Lit(Lower(country)), WB>>), Lower(q)))

\* C6: extract_countries returns each known country that occurs in the query
\* as a whole word exactly once, no other country, in the order of the
\* countries' first mentions in the query.
C6_CountriesInMentionOrder ==
    Returned("extract_countries") =>
        LET result == parser_result[1].value IN
        /\ Range(result) = {c \in Range(self_available_countries) : OccursAsWord(c, parser_query)}
        /\ \A i, j \in DOMAIN result : i # j => result[i] # result[j]
        /\ \A i, j \in DOMAIN result :
              i < j => FirstMention(result[i], parser_query) <= FirstMention(result[j], parser_query)

\* the (year, month, day) a date string stands for
DateOf(str) ==
    LET parts == Split(str, "-")
    IN  <<ParseInt(parts[1]), ParseInt(parts[2]), ParseInt(parts[3])>>

\* a is not later than b, for date strings
NotLater(a, b) ==
    LET x == DateOf(a)
        y == DateOf(b)
    IN  \/ x[1] < y[1]
        \/ x[1] = y[1] /\ x[2] < y[2]
        \/ x[1] = y[1] /\ x[2] = y[2] /\ x[3] <= y[3]

\* C7: a range returned by extract_date_range with both bounds set satisfies
\* data_start <= start <= end <= data_end; a start beyond data_end or an end
\* before data_start is not returned.
C7_RangeWithinAvailable ==
    (Returned("extract_date_range") /\ ~IsRaise(parser_result[1].value)) =>
        LET r == parser_result[1].value IN
        /\ (r.start # None /\ r.end # None) =>
              /\ NotLater(self_date_range[1], r.start)
              /\ NotLater(r.start, r.end)
              /\ NotLater(r.end, self_date_range[2])
        /\ r.start # None => NotLater(r.start, self_date_range[2])
        /\ r.end # None => NotLater(self_date_range[1], r.end)

DateRangeReturned ==
    Returned("extract_date_range") /\ ~IsRaise(parser_result[1].value)

\* the query holds "last N unit" (word = "last") or "past N unit"
RelativeMatches(word, q) == Search(relative_pattern(word), Lower(q))

\* now - N * unit through now, a year of 365 and a month of 30 days, for the
\* leftmost relative expression of the word
RelativeRangeOf(word, q, now, pads) ==
    LET Window(days) ==
            DateRange(Strftime(FromOrdinal(ToOrdinal(now) - days), pads), Strftime(now, pads))
        Days(g) ==
            IF g.unit \in {"year", "years"} THEN 365 * g.amount
            ELSE IF g.unit \in {"month", "months"} THEN 30 * g.amount
            ELSE g.amount
    IN  Window(Days(RelativeGroups(word, Lower(q))))

\* C17: when the query holds a relative expression and a range is returned,
\* the range is the clamped now - N * unit through now of a relative
\* expression of the query, whatever dates and years the query holds.
C17_RelativeRuleOverrides ==
    (DateRangeReturned
        /\ (RelativeMatches("last", parser_query) \/ RelativeMatches("past", parser_query))) =>
        \E word \in {"last", "past"} :
            /\ RelativeMatches(word, parser_query)
            /\ parser_result[1].value =
                  ClampToAvailable(RelativeRangeOf(word, parser_query, datetime_now, pads_year),
                                   self_date_range[1], self_date_range[2])

C17_Witness ==
    /\ DateRangeReturned
    /\ parser_query = "2009/6/30 last 2 years"
    /\ parser_result[1].value = DateRange("2024-11-03", "2024-12-31")

\* what the explicit-date and the bare-year rule give for the query
EarlierRange(q, pads) == BareYearRule(q, Lower(q), ExplicitDateRule(q, Lower(q), pads))

\* the result has the start of the relative rule and the end that the
\* explicit-date or the bare-year rule had set, which is not the relative
\* rule's end
MixesRules(q, now, pads, available, result) ==
    /\ ~IsRaise(result)
    /\ \E word \in {"last", "past"} :
          /\ RelativeMatches(word, q)
          /\ LET Mixed(relative, earlier) ==
                     /\ Truthy(result.start) /\ result.start = relative.start
                     /\ Truthy(earlier.end) /\ result.end = earlier.end
                     /\ earlier.end # relative.end
             IN  Mixed(ClampToAvailable(RelativeRangeOf(word, q, now, pads),
                                        available[1], available[2]),
                       ClampToAvailable(EarlierRange(q, pads), available[1], available[2]))

\* C18 as stated: for the parser's available range and clock, some query
\* makes extract_date_range return the start of the relative rule with an
\* end left over from an earlier rule.
C18_SomeQueryMixesRules ==
    \E q \in Phrases(DateFragments, MaxDateParts) :
        MixesRules(q, datetime_now, pads_year, self_date_range,
                   extract_date_range(q, self_date_range[1], self_date_range[2],
                                      datetime_now, pads_year))

\* C18, amended: no query makes extract_date_range return the start of the
\* relative rule with an end left over from an earlier rule; a relative
\* expression sets both bounds.
C18_BoundsFromOneRule ==
    Returned("extract_date_range") =>
        ~MixesRules(parser_query, datetime_now, pads_year, self_date_range,
                    parser_result[1].value)

\* a relative expression after a year: the year's end is not returned
C18_Witness ==
    /\ DateRangeReturned
    /\ RelativeMatches("last", parser_query)
    /\ Truthy(parser_result[1].value.start)
    /\ EarlierRange(parser_query, pads_year).end = "2019-12-31"
    /\ parser_result[1].value.end = self_date_range[2]

\* C19: with "in YYYY" or "during YYYY" in the query, the returned range is
\* the clamped range of the earlier rules when they set a start, and the
\* clamped [YYYY-01-01, YYYY-12-31] when they did not, whatever end they set.
C19_InYearOnlyWhenStartUnset ==
    (DateRangeReturned /\ Search(in_year_pattern, Lower(parser_query))) =>
        LET Expected(earlier, year) ==
                IF Truthy(earlier.start) THEN earlier
                ELSE DateRange(year \o "-01-01", year \o "-12-31")
        IN  parser_result[1].value =
                ClampToAvailable(
                    Expected(RulesBeforeInYear(parser_query, Lower(parser_query),
                                               datetime_now, pads_year),
                             InYearGroup(Lower(parser_query))),
                    self_date_range[1], self_date_range[2])

\* the keyword occurs in the query as a word
KeywordOccurs(word, q) == Search(Cat(<<WB, Lit(word), WB>>), Lower(q))

\* the query holds one explicit date, a date of the calendar, and neither a
\* relative nor an in/during expression
OneExplicitDate(q) ==
    /\ Len(FindAllDates(q)) = 1
    /\ ValidDate(ParseInt(FindAllDates(q)[1][1]), ParseInt(FindAllDates(q)[1][2]),
                 ParseInt(FindAllDates(q)[1][3]))
    /\ ~RelativeMatches("last", q) /\ ~RelativeMatches("past", q)
    /\ ~Search(in_year_pattern, Lower(q))

\* C20: the one explicit date of a query is the start when from or since
\* occurs as a word; otherwise the end when until, to or before occurs as a
\* word; otherwise the start.
C20_SingleDateRole ==
    (DateRangeReturned /\ OneExplicitDate(parser_query)) =>
        LET Expected(date) ==
                IF KeywordOccurs("from", parser_query) \/ KeywordOccurs("since", parser_query)
                THEN DateRange(date, None)
                ELSE IF \/ KeywordOccurs("until", parser_query)
                        \/ KeywordOccurs("to", parser_query)
                        \/ KeywordOccurs("before", parser_query)
                THEN DateRange(None, date)
                ELSE DateRange(date, None)
            Formatted(groups) ==
                Strftime(Date(ParseInt(groups[1]), ParseInt(groups[2]), ParseInt(groups[3])),
                         pads_year)
        IN  parser_result[1].value =
                ClampToAvailable(Expected(Formatted(FindAllDates(parser_query)[1])),
                                 self_date_range[1], self_date_range[2])

(***************************************************************************)
(* The request paths: /api/chat with LLMService.process_query, and         *)
(* /api/query-data, with the activity tracking both handlers do.           *)
(***************************************************************************)
MAX_QUERY_LENGTH == 2000

\* the characters of [\x00-\x08\x0B-\x0C\x0E-\x1F\x7F] that a string of the
\* model can hold
ControlChars == {"\f"}

RECURSIVE RemoveChars(_, _)
\* re.sub('[chars]', '', s)
RemoveChars(s, chars) ==
    IF Len(s) = 0 THEN ""
    ELSE IF Len(s) = 1 THEN (IF s \in chars THEN "" ELSE s)
    ELSE LET mid == Len(s) \div 2
         IN  RemoveChars(SubSeq(s, 1, mid), chars)
                \o RemoveChars(SubSeq(s, mid + 1, Len(s)), chars)

sanitize_input(text) == Strip(Truncate(RemoveChars(text, ControlChars), 5000))

validate_query_length(q, max_length) == Len(q) <= max_length

\* re.match(r'^[a-zA-Z0-9_-]{1,100}$', session_id); $ also matches before a
\* final line break
MatchesSessionId(session_id) ==
    \E last \in {Len(session_id), Len(session_id) - 1} :
        /\ last >= 1 /\ last <= 100
        /\ \A k \in 1..last : Char(session_id, k) \in WordChars \cup {"-"}
        /\ last < Len(session_id) => Char(session_id, Len(session_id)) = "\n"

\* uuid stands for str(uuid.uuid4())
validate_session_id(session_id, uuid) ==
    IF Truthy(session_id) /\ MatchesSessionId(session_id) THEN session_id ELSE uuid

\* one step of handling a request
Event(ev, arg) == [ev |-> ev, arg |-> arg]

\* what a call of client.chat.completions.create does
Completion(text) == [kind |-> "content", text |-> text, exc |-> None]

NoChoices == [kind |-> "no_choices", text |-> None, exc |-> None]

NoneContent == [kind |-> "none_content", text |-> None, exc |-> None]

Raises(exc, message) == [kind |-> "raise", text |-> message, exc |-> exc]

HTTPException(status_code, detail) ==
    [exc |-> "HTTPException", status_code |-> status_code, detail |-> detail]

\* an exception other than HTTPException, with str(e) = message
Exception(exc, message) == [exc |-> exc, status_code |-> 0, detail |-> message]

\* the handler raised HTTPException(status, detail)
Refused(status, detail) == [status |-> status, detail |-> detail, body |-> <<>>]

\* the handler returned its response model
Served(body) == [status |-> 200, detail |-> None, body |-> <<body>>]

\* the except clauses of chat
chat_except(e) ==
    IF e.exc = "HTTPException" THEN Refused(e.status_code, e.detail)
    ELSE Refused(500, e.detail)

\* query_data with every exception, HTTPException included, turned into a 500
query_data_except_all(e) == Refused(500, e.detail)

\* the except clauses of query_data
query_data_except(e) ==
    IF e.exc = "HTTPException" THEN Refused(e.status_code, e.detail)
    ELSE Refused(500, e.detail)

TooLong ==
    "Query exceeds maximum length of " \o IntToStr(MAX_QUERY_LENGTH) \o " characters"

chart_keywords ==
    {"chart", "graph", "plot", "visualize", "visualization", "show me", "display",
     "create a chart", "make a graph"}

\* the chart request as <<r>>, None as <<>>, and whether the backend was asked
_detect_chart_request(user_query, chart_reply) ==
    IF \E keyword \in chart_keywords : Contains(Lower(user_query), keyword)
    THEN [chart_request |-> <<[needs_chart |-> chart_reply # "no_chart"]>>,
          trace |-> <<Event("backend", "gpt-3.5-turbo")>>]
    ELSE [chart_request |-> <<>>, trace |-> <<>>]

\* the dict process_query returns; a key it leaves out holds the value that
\* result.get gives for it
Result(response, chart_request, session_id, blocked, block_category, error) ==
    [response |-> response, chart_request |-> chart_request, session_id |-> session_id,
     blocked |-> blocked, block_category |-> block_category, error |-> error]

RateLimitMessage ==
    "I'm experiencing high demand right now. Please try again in a moment."

\* the message chosen from str(e).lower() of an openai.APIError
ApiErrorMessage(error_msg) ==
    IF Contains(error_msg, "authentication") \/ Contains(error_msg, "invalid")
    THEN "I'm having trouble connecting to the service. Please check your configuration."
    ELSE IF Contains(error_msg, "timeout") \/ Contains(error_msg, "connection")
    THEN "The request took too long. Please try again with a simpler query."
    ELSE IF Contains(error_msg, "quota") \/ Contains(error_msg, "billing")
    THEN "Service quota exceeded. Please try again later."
    ELSE "I'm having trouble processing that request right now. Could you try rephrasing your question?"

InternalErrorMessage ==
    "I'm having trouble with that request. Could you try rephrasing your question or asking something else?"

\* LLMService.process_query: the dict it returns and what it did.  The
\* conversation history only shapes the prompt and is left out.
process_query(user_query, session_id, chart_reply, reply) ==
    LET v == validate_query(user_query)
        checked == <<Event("validate_query", IF v.allowed THEN "allowed" ELSE "blocked")>>
    IN  IF ~v.allowed
        THEN [result |-> Result(v.reason, <<>>, session_id, TRUE, v.category, None),
              trace |-> checked]
        ELSE
        LET chart == _detect_chart_request(user_query, chart_reply)
            done == checked \o chart.trace \o <<Event("backend", "self.model")>>
            failed(response, error) ==
                [result |-> Result(response, <<>>, session_id, FALSE, None, error),
                 trace |-> done]
        IN  CASE reply.kind = "raise" /\ reply.exc = "RateLimitError" ->
                    failed(RateLimitMessage, "rate_limit")
              [] reply.kind = "raise" /\ reply.exc = "APIError" ->
                    failed(ApiErrorMessage(Lower(reply.text)), "api_error")
              [] reply.kind = "raise" /\ reply.exc \notin {"RateLimitError", "APIError"} ->
                    failed(InternalErrorMessage, "internal_error")
              [] reply.kind \in {"no_choices", "none_content"} ->
                    failed(InternalErrorMessage, "internal_error")
              [] reply.kind = "content" ->
                    LET sanitized_response ==
                            GuardrailService_sanitize_response(sanitize_response(reply.text))
                        needs_chart ==
                            chart.chart_request # <<>> /\ chart.chart_request[1].needs_chart
                    IN  [result |-> Result(sanitized_response,
                                           IF needs_chart THEN chart.chart_request ELSE <<>>,
                                           session_id, FALSE, None, None),
                         trace |-> done]

\* dict[key] += 1 on a defaultdict(int)
Incr(dict, key) ==
    IF key \in DOMAIN dict THEN [dict EXCEPT ![key] = @ + 1] ELSE dict @@ (key :> 1)

RECURSIVE IncrAll(_, _)
IncrAll(dict, keys) ==
    IF keys = <<>> THEN dict ELSE IncrAll(Incr(dict, Head(keys)), Tail(keys))

\* track_query counting the type of a blocked query too
track_query_counting_blocked(self, session_id, q, query_type, countries, blocked, block_category, chart_requested, today, timestamp) ==
    LET query_record ==
            [session_id |-> session_id, query |-> Truncate(q, 200),
             query_type |-> query_type, countries |-> countries, blocked |-> blocked,
             block_category |-> block_category, chart_requested |-> chart_requested,
             timestamp |-> timestamp, date |-> today]
        counted ==
            IF blocked /\ Truthy(block_category)
            THEN [self EXCEPT !.blocked_queries = Incr(@, block_category),
                              !.query_types = Incr(@, query_type)]
            ELSE [self EXCEPT !.query_types = Incr(@, query_type),
                              !.country_mentions = IncrAll(@, countries)]
        known ==
            IF session_id \in DOMAIN self.sessions THEN self.sessions
            ELSE self.sessions @@
                    (session_id :> [created_at |-> timestamp, query_count |-> 0,
                                    chart_requests |-> 0, text_queries |-> 0,
                                    countries_queried |-> {},
                                    last_activity |-> timestamp])
        session == known[session_id]
        updated ==
            [session EXCEPT
                !.query_count = @ + 1,
                !.last_activity = timestamp,
                !.chart_requests = IF chart_requested THEN @ + 1 ELSE @,
                !.text_queries = IF chart_requested THEN @ ELSE @ + 1,
                !.countries_queried = @ \cup Range(countries)]
    IN  [counted EXCEPT !.queries = Append(@, query_record),
                        !.daily_usage = Incr(@, today),
                        !.sessions = [known EXCEPT ![session_id] = updated]]

\* ActivityTracker.track_query; self is the tracker before the call
track_query(self, session_id, q, query_type, countries, blocked, block_category, chart_requested, today, timestamp) ==
    LET query_record ==
            [session_id |-> session_id, query |-> Truncate(q, 200),
             query_type |-> query_type, countries |-> countries, blocked |-> blocked,
             block_category |-> block_category, chart_requested |-> chart_requested,
             timestamp |-> timestamp, date |-> today]
        counted ==
            IF blocked /\ Truthy(block_category)
            THEN [self EXCEPT !.blocked_queries = Incr(@, block_category)]
            ELSE [self EXCEPT !.query_types = Incr(@, query_type),
                              !.country_mentions = IncrAll(@, countries)]
        known ==
            IF session_id \in DOMAIN self.sessions THEN self.sessions
            ELSE self.sessions @@
                    (session_id :> [created_at |-> timestamp, query_count |-> 0,
                                    chart_requests |-> 0, text_queries |-> 0,
                                    countries_queried |-> {},
                                    last_activity |-> timestamp])
        session == known[session_id]
        updated ==
            [session EXCEPT
                !.query_count = @ + 1,
                !.last_activity = timestamp,
                !.chart_requests = IF chart_requested THEN @ + 1 ELSE @,
                !.text_queries = IF chart_requested THEN @ ELSE @ + 1,
                !.countries_queried = @ \cup Range(countries)]
    IN  [counted EXCEPT !.queries = Append(@, query_record),
                        !.daily_usage = Incr(@, today),
                        !.sessions = [known EXCEPT ![session_id] = updated]]

\* ActivityTracker.extract_countries_from_query
extract_countries_from_query(q, available_countries) ==
    SelectSeq(available_countries, LAMBDA country : Contains(Lower(q), Lower(country)))

\* ds.get_countries()
DatasetCountries == <<"France", "Germany", "Niger", "Nigeria">>

\* the countries whose series get_data_summary_for_query reads and summarises;
\* the summary stands for the text made from them
get_data_summary_for_query(q) ==
    LET mentioned_countries ==
            SelectSeq(DatasetCountries, LAMBDA country : Contains(Lower(q), Lower(country)))
    IN  [summary_of |-> IF mentioned_countries = <<>> THEN Truncate(DatasetCountries, 3)
                        ELSE mentioned_countries]

\* datetime.now().date().isoformat()
TodayIso == Strftime(Today, TRUE)

\* the chat handler keeping every turn of a session
chat_keeping_every_turn(message, request_session_id, uuid, chart_reply, reply, timestamp) ==
    LET sanitized_message == sanitize_input(message) IN
    IF ~validate_query_length(sanitized_message, MAX_QUERY_LENGTH)
    THEN [outcome |-> chat_except(HTTPException(400, TooLong)), trace |-> <<>>,
          process_result |-> <<>>, sessions |-> sessions, tracker |-> tracker]
    ELSE
    LET session_id == validate_session_id(request_session_id, uuid)
        p == process_query(sanitized_message, session_id, chart_reply, reply)
        result == p.result
        existing ==
            IF session_id \in DOMAIN sessions THEN sessions
            ELSE sessions @@ (session_id :> [history |-> <<>>, created_at |-> timestamp])
        history ==
            Append(existing[session_id].history,
                   [user |-> sanitized_message, assistant |-> result.response,
                    timestamp |-> timestamp])
        countries == extract_countries_from_query(sanitized_message, DatasetCountries)
        chart_requested == result.chart_request # <<>>
    IN  [outcome |-> Served([response |-> result.response,
                             chart_request |-> result.chart_request,
                             session_id |-> session_id,
                             blocked |-> result.blocked,
                             error |-> result.error]),
         trace |-> p.trace \o <<Event("get_countries", ""), Event("track_query", "")>>,
         process_result |-> <<result>>,
         sessions |-> [existing EXCEPT ![session_id].history = history],
         tracker |-> track_query(tracker, session_id, sanitized_message,
                                 IF chart_requested THEN "chart" ELSE "text",
                                 countries, result.blocked, result.block_category,
                                 chart_requested, TodayIso, timestamp)]

\* the chat handler on a request: what the caller receives, what the handler
\* did, and the sessions and tracker it leaves
chat(message, request_session_id, uuid, chart_reply, reply, timestamp) ==
    LET sanitized_message == sanitize_input(message) IN
    IF ~validate_query_length(sanitized_message, MAX_QUERY_LENGTH)
    THEN [outcome |-> chat_except(HTTPException(400, TooLong)), trace |-> <<>>,
          process_result |-> <<>>, sessions |-> sessions, tracker |-> tracker]
    ELSE
    LET session_id == validate_session_id(request_session_id, uuid)
        p == process_query(sanitized_message, session_id, chart_reply, reply)
        result == p.result
        existing ==
            IF session_id \in DOMAIN sessions THEN sessions
            ELSE sessions @@ (session_id :> [history |-> <<>>, created_at |-> timestamp])
        history ==
            Append(existing[session_id].history,
                   [user |-> sanitized_message, assistant |-> result.response,
                    timestamp |-> timestamp])
        countries == extract_countries_from_query(sanitized_message, DatasetCountries)
        chart_requested == result.chart_request # <<>>
    IN  [outcome |-> Served([response |-> result.response,
                             chart_request |-> result.chart_request,
                             session_id |-> session_id,
                             blocked |-> result.blocked,
                             error |-> result.error]),
         trace |-> p.trace \o <<Event("get_countries", ""), Event("track_query", "")>>,
         process_result |-> <<result>>,
         sessions |-> [existing EXCEPT ![session_id].history = LastN(history, 20)],
         tracker |-> track_query(tracker, session_id, sanitized_message,
                                 IF chart_requested THEN "chart" ELSE "text",
                                 countries, result.blocked, result.block_category,
                                 chart_requested, TodayIso, timestamp)]

\* the query_data handler on a request
query_data(q, reply, timestamp) ==
    LET sanitized_query == sanitize_input(q)
        unchanged(e, did) ==
            [outcome |-> query_data_except(e), trace |-> did, tracker |-> tracker]
    IN
    IF ~validate_query_length(sanitized_query, MAX_QUERY_LENGTH)
    THEN unchanged(HTTPException(400, TooLong), <<>>)
    ELSE
    LET v == validate_query(sanitized_query)
        checked ==
            IF ENABLE_GUARDRAILS
            THEN <<Event("validate_query", IF v.allowed THEN "allowed" ELSE "blocked")>>
            ELSE <<>>
    IN
    IF ENABLE_GUARDRAILS /\ ~v.allowed
    THEN unchanged(HTTPException(403, v.reason), checked)
    ELSE
    LET data_summary == get_data_summary_for_query(sanitized_query)
        done == checked \o <<Event("get_data_summary", ""), Event("backend", "llm.model")>>
    IN  CASE reply.kind = "raise" -> unchanged(Exception(reply.exc, reply.text), done)
          [] reply.kind = "no_choices" ->
                unchanged(HTTPException(500, "LLM API returned no response"), done)
          [] reply.kind = "none_content" ->
                unchanged(HTTPException(500, "LLM API returned empty content"), done)
          [] reply.kind = "content" ->
                [outcome |-> Served([results |-> [query |-> sanitized_query,
                                                  data_summary |-> data_summary],
                                     summary |-> reply.text]),
                 trace |-> done \o <<Event("get_countries", ""), Event("track_query", "")>>,
                 tracker |-> track_query(tracker, "query-data", sanitized_query, "text",
                                extract_countries_from_query(sanitized_query, DatasetCountries),
                                FALSE, None, FALSE, TodayIso, timestamp)]

\* bound: number of requests handled in one behaviour
MaxRequests == 1

RECURSIVE Copies(_, _)
\* s * n
Copies(s, n) ==
    IF n = 0 THEN ""
    ELSE LET half == Copies(s, n \div 2)
         IN  IF n % 2 = 0 THEN half \o half ELSE half \o half \o s

Messages ==
    {"How is France doing?", "plot Germany and France\f", "  Download all data as CSV ",
     "weak countries", Copies("a", MAX_QUERY_LENGTH + 1)}

SessionIds == {None, "s1", "s 1"}

ChartReplies == {"needs_chart", "no_chart", "raise"}

BackendReplies ==
    {Completion("Sentiment rose in France."),
     Completion("Sentiment rose.\n2019,1,2,3,4,5,6\nIt fell, later, in a, b, c, d."),
     NoChoices, NoneContent,
     Raises("RateLimitError", "Rate limit reached"),
     Raises("APIError", "Request timeout"),
     Raises("Exception", "connection reset")}

\* the handler gets as far as the backend with this request; guarded tells
\* whether it validates the query
ReachesBackend(message, guarded) ==
    /\ validate_query_length(sanitize_input(message), MAX_QUERY_LENGTH)
    /\ guarded => validate_query(sanitize_input(message)).allowed

\* the replies the backend gives to the calls the handler makes: none is
\* drawn for a call that is not made
RepliesTo(message, guarded) ==
    IF ReachesBackend(message, guarded) THEN BackendReplies ELSE {NoChoices}

ChartRepliesTo(message) ==
    IF ReachesBackend(message, TRUE)
          /\ _detect_chart_request(sanitize_input(message), "no_chart").trace # <<>>
    THEN ChartReplies ELSE {"no_chart"}

Init ==
    /\ ENABLE_GUARDRAILS \in BOOLEAN
    /\ sessions = EmptyDict /\ tracker = NewTracker
    /\ clock = 0 /\ request = <<>> /\ trace = <<>> /\ process_result = <<>>
    /\ outcome = <<>>
    /\ GuardIdle /\ SanitizeIdle /\ RateIdle /\ ParserIdle /\ StatsIdle

\* POST /api/chat
Chat ==
    /\ clock < MaxRequests
    /\ \E message \in Messages, session_id \in SessionIds :
       \E chart_reply \in ChartRepliesTo(message), reply \in RepliesTo(message, TRUE) :
          \E r \in {chat(message, session_id, "uuid-" \o IntToStr(clock + 1),
                        chart_reply, reply, clock + 1)} :
              /\ request' = [endpoint |-> "/api/chat", text |-> message,
                             session_id |-> session_id]
              /\ outcome' = r.outcome
              /\ trace' = r.trace
              /\ process_result' = r.process_result
              /\ sessions' = r.sessions
              /\ tracker' = r.tracker
    /\ clock' = clock + 1
    /\ UNCHANGED <<ENABLE_GUARDRAILS, guardVars, sanitizeVars, rateVars, parserVars,
                   statsVars>>

\* POST /api/query-data
QueryData ==
    /\ clock < MaxRequests
    /\ \E q \in Messages :
       \E reply \in RepliesTo(q, ENABLE_GUARDRAILS) :
          \E r \in {query_data(q, reply, clock + 1)} :
              /\ request' = [endpoint |-> "/api/query-data", text |-> q,
                             session_id |-> None]
              /\ outcome' = r.outcome
              /\ trace' = r.trace
              /\ tracker' = r.tracker
    /\ process_result' = <<>>
    /\ clock' = clock + 1
    /\ UNCHANGED <<ENABLE_GUARDRAILS, sessions, guardVars, sanitizeVars, rateVars,
                   parserVars, statsVars>>

Next == Chat \/ QueryData

Spec == Init /\ [][Next]_vars

(***************************************************************************)
(* Specification SpecSessions: a long run of chat requests, most of them   *)
(* of one session.                                                         *)
(***************************************************************************)
\* bound: number of chat requests of a run
MaxTurns == 26

\* bound: number of requests of a run outside its main session
MaxOthers == 2

\* the request that arrives at a time of the run: in turn one that is
\* answered, one that is blocked, one the backend fails, and now and then one
\* that is too long
TurnAt(time) ==
    IF time % 7 = 3
    THEN [message |-> Copies("a", MAX_QUERY_LENGTH + 1), reply |-> NoChoices]
    ELSE IF time % 3 = 0
    THEN [message |-> "How is France doing?", reply |-> Completion("Sentiment rose in France.")]
    ELSE IF time % 3 = 1
    THEN [message |-> "weak countries", reply |-> NoChoices]
    ELSE [message |-> "How is Niger doing?", reply |-> Raises("Exception", "connection reset")]

\* the turns stored for the sessions other than the main one
OtherTurns ==
    Cardinality({<<s, k>> \in (DOMAIN sessions) \X (1..20) :
                    s # "s1" /\ k <= Len(sessions[s].history)})

InitSessions ==
    /\ ENABLE_GUARDRAILS = TRUE
    /\ sessions = EmptyDict /\ tracker = NewTracker
    /\ clock = 0 /\ request = <<>> /\ trace = <<>> /\ process_result = <<>>
    /\ outcome = <<>>
    /\ GuardIdle /\ SanitizeIdle /\ RateIdle /\ ParserIdle /\ StatsIdle

\* POST /api/chat, one request after the other
ChatTurn ==
    /\ clock < MaxTurns
    /\ \E session_id \in {"s1"} \cup (IF OtherTurns < MaxOthers THEN {"s2", None} ELSE {}) :
       \E r \in {chat(TurnAt(clock).message, session_id, "uuid-" \o IntToStr(clock + 1),
                     "no_chart", TurnAt(clock).reply, clock + 1)} :
          /\ request' = [endpoint |-> "/api/chat", text |-> TurnAt(clock).message,
                         session_id |-> session_id]
          /\ outcome' = r.outcome
          /\ trace' = r.trace
          /\ process_result' = r.process_result
          /\ sessions' = r.sessions
          /\ tracker' = r.tracker
    /\ clock' = clock + 1
    /\ UNCHANGED <<ENABLE_GUARDRAILS, guardVars, sanitizeVars, rateVars, parserVars,
                   statsVars>>

NextSessions == ChatTurn

SpecSessions == InitSessions /\ [][NextSessions]_vars

(***************************************************************************)
(* Specification SpecTracker: track_query called a few times on one        *)
(* tracker.                                                                *)
(***************************************************************************)
\* bound: number of track_query calls of a run
MaxTracked == 3

\* query_type and chart_requested of a call
TrackedKinds == {<<"chart", TRUE>>, <<"text", FALSE>>, <<"text", TRUE>>}

\* blocked and block_category of a call
TrackedBlocks == {<<FALSE, None>>, <<TRUE, "data_extraction">>, <<TRUE, None>>}

TrackedCountries == {<<>>, <<"France", "Niger">>}

\* the day of a call: the date changes during a run
TrackedDay(time) == IF time < 2 THEN "2026-11-03" ELSE "2026-11-04"

InitTracker ==
    /\ ENABLE_GUARDRAILS = TRUE
    /\ sessions = EmptyDict /\ tracker = NewTracker
    /\ clock = 0 /\ request = <<>> /\ trace = <<>> /\ process_result = <<>>
    /\ outcome = <<>>
    /\ GuardIdle /\ SanitizeIdle /\ RateIdle /\ ParserIdle /\ StatsIdle

TrackQuery ==
    /\ clock < MaxTracked
    /\ \E session_id \in {"s1", "s2"}, kind \in TrackedKinds, block \in TrackedBlocks,
          countries \in TrackedCountries :
          tracker' = track_query(tracker, session_id, "How is France doing?", kind[1],
                                 countries, block[1], block[2], kind[2],
                                 TrackedDay(clock), clock + 1)
    /\ clock' = clock + 1
    /\ UNCHANGED <<ENABLE_GUARDRAILS, sessions, request, trace, process_result, outcome>>
    /\ UNCHANGED <<guardVars, sanitizeVars, rateVars, parserVars, statsVars>>

NextTracker == TrackQuery

SpecTracker == InitTracker /\ [][NextTracker]_vars

Handled(endpoint) == request # <<>> /\ request.endpoint = endpoint

\* the query the handler works on
SanitizedRequest == sanitize_input(request.text)

Did(ev) == {k \in DOMAIN trace : trace[k].ev = ev}

\* C3: on both request paths every backend call and every data summary comes
\* after validate_query has allowed the query, whatever ENABLE_GUARDRAILS is;
\* a blocked query causes neither.
C3_ValidatedBeforeAccess ==
    request # <<>> =>
        /\ \A k \in Did("backend") \cup Did("get_data_summary") :
              \E j \in Did("validate_query") : j < k /\ trace[j].arg = "allowed"
        /\ (validate_query_length(SanitizedRequest, MAX_QUERY_LENGTH)
                /\ ~validate_query(SanitizedRequest).allowed)
              => Did("backend") \cup Did("get_data_summary") = {}

\* the text the caller receives from the last request
ReturnedText ==
    IF Handled("/api/chat") THEN outcome.body[1].response ELSE outcome.body[1].summary

\* C4: on both request paths the text returned to the caller holds no line
\* that GuardrailService.sanitize_response drops.
C4_ReturnedTextSanitized ==
    (request # <<>> /\ outcome.status = 200) =>
        LET lines == Split(ReturnedText, "\n")
        IN  \A k \in DOMAIN lines : ~GuardrailDropsLine(lines[k])

\* validate_query was called for the last request and blocked it
Blocked == \E k \in Did("validate_query") : trace[k].arg = "blocked"

\* C5: when validate_query blocks the query, process_query returns a result
\* with the verdict's reason as response, blocked true and the verdict's
\* category, /api/query-data refuses with the same reason, and neither path
\* ends in an error or 5xx outcome.
C5_BlockIsNormalOutcome ==
    Blocked =>
        LET v == validate_query(SanitizedRequest) IN
        /\ outcome.status < 500
        /\ Handled("/api/chat") =>
              /\ process_result # <<>>
              /\ process_result[1].response = v.reason
              /\ process_result[1].blocked = TRUE
              /\ process_result[1].block_category = v.category
              /\ process_result[1].error = None
              /\ outcome.status = 200
              /\ outcome.body[1].response = v.reason
              /\ outcome.body[1].blocked = TRUE
        /\ Handled("/api/query-data") =>
              /\ outcome.status = 403
              /\ outcome.detail = v.reason

C5_Witness ==
    /\ Handled("/api/query-data") /\ Blocked
    /\ outcome.status = 403
    /\ outcome.detail = ReasonDataExtraction

(***************************************************************************)
(* DataService.get_summary_statistics.  A series holds integers, for which *)
(* the sums and the comparisons with the thresholds are exact; a fraction  *)
(* is a record of numerator and positive denominator in lowest terms, and  *)
(* a value made with the standard deviation is held by the fractions it is *)
(* made of.                                                                *)
(***************************************************************************)
Abs(a) == IF a < 0 THEN -a ELSE a

RECURSIVE GCD(_, _)
GCD(a, b) == IF b = 0 THEN a ELSE GCD(b, a % b)

Rat(num, den) ==
    LET g == GCD(Abs(num), Abs(den))
        sign == IF den < 0 THEN -1 ELSE 1
    IN  [num |-> sign * (num \div g), den |-> sign * (den \div g)]

Zero == Rat(0, 1)

\* a * b, with the common factors taken out before multiplying
RatTimes(a, b) ==
    LET g1 == GCD(Abs(a.num), b.den)
        g2 == GCD(Abs(b.num), a.den)
    IN  Rat((a.num \div g1) * (b.num \div g2), (a.den \div g2) * (b.den \div g1))

\* 1 / a, for a # 0
RatInverse(a) == Rat(a.den, a.num)

RECURSIVE FractionLess(_, _, _, _)
\* a / b < c / d for a, c >= 0 and b, d > 0, by continued fractions
FractionLess(a, b, c, d) ==
    IF a \div b # c \div d THEN a \div b < c \div d
    ELSE IF c % d = 0 THEN FALSE
    ELSE IF a % b = 0 THEN TRUE
    ELSE FractionLess(d, c % d, b, a % b)

\* a cell of the data frame: a value, or NaN
Value(v) == <<v>>

NaN == <<>>

RECURSIVE Sum(_)
Sum(values) == IF values = <<>> THEN 0 ELSE Head(values) + Sum(Tail(values))

\* sum of x * y with x = np.arange(len(values))
SumXY(values) == Sum([k \in DOMAIN values |-> (k - 1) * values[k]])

SumSquares(values) == Sum([k \in DOMAIN values |-> values[k] * values[k]])

\* np.polyfit(x, values, 1)[0]: the least-squares slope
Slope(values) ==
    LET n == Len(values)
        x == [k \in 1..n |-> k - 1]
    IN  Rat(n * SumXY(values) - Sum(x) * Sum(values), n * SumSquares(x) - Sum(x) * Sum(x))

\* values.std() squared (ddof = 1)
Variance(values) ==
    LET n == Len(values)
    IN  Rat(n * SumSquares(values) - Sum(values) * Sum(values), n * (n - 1))

\* values.mean()
Mean(values) == Rat(Sum(values), Len(values))

RECURSIVE SortByDate(_)
\* sort_values('date')
SortByDate(rows) ==
    IF rows = <<>> THEN <<>>
    ELSE LET first == CHOOSE k \in DOMAIN rows :
                          \A j \in DOMAIN rows :
                              ~StrLess(rows[j].date, rows[k].date) /\ (rows[j].date = rows[k].date => k <= j)
         IN  <<rows[first]>>
                \o SortByDate(SubSeq(rows, 1, first - 1) \o SubSeq(rows, first + 1, Len(rows)))

\* the country columns of the data frame
StatsCountries == <<"France">>

\* get_country_data answering an unknown country with the rows of the
\* data frame
get_country_data_or_first(country, start_date, end_date) ==
    [data |-> SortByDate(SelectSeq(df, LAMBDA row :
        /\ Truthy(start_date) => ~StrLess(row.date, start_date)
        /\ Truthy(end_date) => ~StrLess(end_date, row.date)
        /\ row.sentiment # NaN))]

\* get_country_data: it raises, or returns as data the rows in the range
\* that hold a value, by date
get_country_data(country, start_date, end_date) ==
    IF ~InSeq(country, ds_countries)
    THEN Raise("ValueError")
    ELSE [data |-> SortByDate(SelectSeq(df, LAMBDA row :
            /\ Truthy(start_date) => ~StrLess(row.date, start_date)
            /\ Truthy(end_date) => ~StrLess(end_date, row.date)
            /\ row.sentiment # NaN))]

\* abs(slope) / values.std()
Strength(slope, variance) == [abs |-> Rat(Abs(slope.num), slope.den), over_root_of |-> variance]

NoStrength == [abs |-> Zero, over_root_of |-> Rat(1, 1)]

\* lines 122-135 with abs(slope) / values.std() computed for any std
TrendOf_unguarded(values) ==
    IF Len(values) > 1
    THEN LET slope == Slope(values)
         IN  [trend |-> IF 100 * slope.num > slope.den THEN "increasing"
                        ELSE IF 100 * slope.num < -slope.den THEN "decreasing"
                        ELSE "stable",
              trend_strength |-> Strength(slope, Variance(values))]
    ELSE [trend |-> None, trend_strength |-> NoStrength]

\* lines 122-135
TrendOf(values) ==
    IF Len(values) > 1
    THEN LET slope == Slope(values)
         IN  [trend |-> IF 100 * slope.num > slope.den THEN "increasing"
                        ELSE IF 100 * slope.num < -slope.den THEN "decreasing"
                        ELSE "stable",
              trend_strength |-> IF Variance(values).num > 0
                                 THEN Strength(slope, Variance(values))
                                 ELSE NoStrength]
    ELSE [trend |-> None, trend_strength |-> NoStrength]

\* a recent window of half the series
recent_size_of_half(n) == Max({1, (n + 1) \div 2})

\* line 140: max(1, len(values) // 5)
recent_size(n) == Max({1, n \div 5})

\* line 141: values.tail(recent_size)
RecentWindow(values) == SubSeq(values, Len(values) - recent_size(Len(values)) + 1, Len(values))

\* line 142: values.iloc[-recent_size*2:-recent_size], or values.head(recent_size)
PreviousWindow(values) ==
    LET Window(n, size) ==
            IF n >= size * 2 THEN SubSeq(values, n - 2 * size + 1, n - size)
            ELSE SubSeq(values, 1, size)
    IN  Window(Len(values), recent_size(Len(values)))

\* lines 137-154; the two windows have recent_size values each, so the
\* quotient of the means is the quotient of the sums
MomentumOf(values) ==
    IF Len(values) >= 3
    THEN LET recent_sum == Sum(RecentWindow(values))
             previous_sum == Sum(PreviousWindow(values))
             momentum_value ==
                 IF previous_sum # 0 THEN Rat(100 * (recent_sum - previous_sum), previous_sum)
                 ELSE Zero
             num == momentum_value.num
             den == momentum_value.den
         IN  [momentum |-> IF Abs(num) < den THEN "stable"
                           ELSE IF num > 5 * den THEN "strongly_positive"
                           ELSE IF num > den THEN "positive"
                           ELSE IF num < -5 * den THEN "strongly_negative"
                           ELSE "negative",
              momentum_value |-> momentum_value]
    ELSE [momentum |-> None, momentum_value |-> Zero]

\* values.std() / values.mean() * 100
Variation(variance, mean) == [root_of |-> variance, over |-> mean, times |-> 100]

NoVariation == [root_of |-> Zero, over |-> Rat(1, 1), times |-> 100]

\* lines 156-168
VolatilityOf(values) ==
    IF Len(values) > 1
    THEN LET mean == Mean(values)
             variance == Variance(values)
             \* (std / mean) squared
             squared == RatTimes(variance, RatInverse(RatTimes(mean, mean)))
             \* std / mean * 100 < 100 * sqrt(num / den)
             below(num, den) ==
                 mean.num <= 0 \/ FractionLess(squared.num, squared.den, num, den)
         IN  [volatility |-> IF below(1, 400) THEN "low"
                             ELSE IF below(9, 400) THEN "moderate"
                             ELSE "high",
              volatility_value |-> IF mean.num # 0 THEN Variation(variance, mean)
                                   ELSE NoVariation]
    ELSE [volatility |-> None, volatility_value |-> NoVariation]

\* the lookup with the momentum left out of its guard
forecast_direction_for_any_trend(trend, momentum) ==
    IF trend = None THEN None
    ELSE IF trend = "increasing" /\ momentum \in {"positive", "strongly_positive"}
    THEN "likely_continuing_upward"
    ELSE IF trend = "decreasing" /\ momentum \in {"negative", "strongly_negative"}
    THEN "likely_continuing_downward"
    ELSE IF trend = "increasing" /\ momentum \in {"negative", "strongly_negative"}
    THEN "possible_reversal_downward"
    ELSE IF trend = "decreasing" /\ momentum \in {"positive", "strongly_positive"}
    THEN "possible_reversal_upward"
    ELSE IF momentum = "stable" THEN "likely_stable"
    ELSE "uncertain"

\* lines 170-183
forecast_direction_of(trend, momentum) ==
    IF trend = None \/ momentum = None THEN None
    ELSE IF trend = "increasing" /\ momentum \in {"positive", "strongly_positive"}
    THEN "likely_continuing_upward"
    ELSE IF trend = "decreasing" /\ momentum \in {"negative", "strongly_negative"}
    THEN "likely_continuing_downward"
    ELSE IF trend = "increasing" /\ momentum \in {"negative", "strongly_negative"}
    THEN "possible_reversal_downward"
    ELSE IF trend = "decreasing" /\ momentum \in {"positive", "strongly_positive"}
    THEN "possible_reversal_upward"
    ELSE IF momentum = "stable" THEN "likely_stable"
    ELSE "uncertain"

\* an Optional[float] of the returned record: a number, or Python's None
Number(v) == <<v>>

NoNumber == <<>>

\* the record of an empty series with a mean of 0.0
EmptyStatistics_with_mean(country) ==
    [country |-> country, data_points |-> 0, mean |-> Number(Zero), min |-> NoNumber,
     max |-> NoNumber, trend |-> None, momentum |-> None, volatility |-> None,
     forecast_direction |-> None]

\* lines 107-118
EmptyStatistics(country) ==
    [country |-> country, data_points |-> 0, mean |-> NoNumber, min |-> NoNumber,
     max |-> NoNumber, trend |-> None, momentum |-> None, volatility |-> None,
     forecast_direction |-> None]

get_summary_statistics(country, start_date, end_date) ==
    LET got == get_country_data(country, start_date, end_date)
        data == got.data
    IN
    IF IsRaise(got) THEN got
    ELSE IF data = <<>>
    THEN EmptyStatistics(country)
    ELSE
    LET values == [k \in DOMAIN data |-> data[k].sentiment[1]]
        t == TrendOf(values)
        m == MomentumOf(values)
        v == VolatilityOf(values)
    IN  [country |-> country,
         data_points |-> Len(values),
         mean |-> Number(Mean(values)),
         min |-> Number(Min(Range(values))),
         max |-> Number(Max(Range(values))),
         std |-> IF Len(values) > 1 THEN [root_of |-> Variance(values)] ELSE NaN,
         trend |-> t.trend,
         trend_strength |-> t.trend_strength,
         momentum |-> m.momentum,
         momentum_value |-> m.momentum_value,
         volatility |-> v.volatility,
         volatility_value |-> v.volatility_value,
         forecast_direction |-> forecast_direction_of(t.trend, m.momentum)]

\* lines 33-39 of _load_data: the first and the last date of the frame
LoadedDateRange(rows) ==
    IF rows = <<>> THEN <<"", "">>
    ELSE <<(CHOOSE d \in {rows[k].date : k \in DOMAIN rows} :
                \A k \in DOMAIN rows : ~StrLess(rows[k].date, d)),
           (CHOOSE d \in {rows[k].date : k \in DOMAIN rows} :
                \A k \in DOMAIN rows : ~StrLess(d, rows[k].date))>>

\* bound: number of rows of the data frame
MaxRows == 4

StatsDates ==
    <<"2020-01-01", "2020-02-01", "2020-03-01", "2020-04-01", "2020-05-01", "2020-06-01">>

Cells == {NaN, Value(0), Value(94), Value(100), Value(101), Value(106)}

\* the data frames of n rows, oldest row first
Frames(n) ==
    {[k \in 1..n |-> [date |-> StatsDates[k], sentiment |-> column[k]]] :
        column \in [1..n -> Cells]}

Reversed(rows) == [k \in DOMAIN rows |-> rows[Len(rows) + 1 - k]]

StatsCalls ==
    {[country |-> "France", start_date |-> None, end_date |-> None],
     [country |-> "France", start_date |-> "2020-02-01", end_date |-> None],
     [country |-> "France", start_date |-> "", end_date |-> "2020-02-15"],
     [country |-> "Atlantis", start_date |-> None, end_date |-> None]}

InitStats ==
    /\ \E n \in 0..MaxRows : \E rows \in Frames(n) : df \in {rows, Reversed(rows)}
    /\ stats_call \in StatsCalls
    /\ stats_result = <<>>
    /\ ds_countries = StatsCountries
    /\ ds_date_range = LoadedDateRange(df)
    /\ DataIdle
    /\ GuardIdle /\ SanitizeIdle /\ RateIdle /\ ParserIdle /\ HostIdle

GetSummaryStatistics ==
    /\ stats_result = <<>>
    /\ stats_result' =
          <<get_summary_statistics(stats_call.country, stats_call.start_date,
                                   stats_call.end_date)>>
    /\ UNCHANGED <<df, stats_call, ds_countries, ds_date_range, ds_call, ds_result, caller_list>>
    /\ UNCHANGED <<guardVars, sanitizeVars, rateVars, parserVars, hostVars>>

NextStats == GetSummaryStatistics

SpecStats == InitStats /\ [][NextStats]_vars

(***************************************************************************)
(* Specification SpecSeries: get_summary_statistics on series long enough  *)
(* for a recent window of several points.                                  *)
(***************************************************************************)
\* bound: number of rows of a long data frame
MaxSeries == 15

SeriesDate(k) == "2021-01-" \o ZeroPad(k, 2)

SeriesShapes == {"constant", "rising", "falling", "alternating", "gapped"}

SeriesCell(shape, k, n) ==
    IF shape = "constant" THEN Value(100)
    ELSE IF shape = "rising" THEN Value(100 + k)
    ELSE IF shape = "falling" THEN Value(100 + n - k)
    ELSE IF shape = "alternating" THEN Value(IF k % 2 = 0 THEN 106 ELSE 94)
    ELSE IF k % 3 = 0 THEN NaN ELSE Value(100 + k)

SeriesFrame(shape, n) ==
    [k \in 1..n |-> [date |-> SeriesDate(k), sentiment |-> SeriesCell(shape, k, n)]]

InitSeries ==
    /\ \E n \in 0..MaxSeries, shape \in SeriesShapes : df = SeriesFrame(shape, n)
    /\ stats_call = [country |-> "France", start_date |-> None, end_date |-> None]
    /\ stats_result = <<>>
    /\ ds_countries = StatsCountries
    /\ ds_date_range = LoadedDateRange(df)
    /\ DataIdle
    /\ GuardIdle /\ SanitizeIdle /\ RateIdle /\ ParserIdle /\ HostIdle

NextSeries == GetSummaryStatistics

SpecSeries == InitSeries /\ [][NextSeries]_vars

StatsReturned == stats_result # <<>> /\ ~IsRaise(stats_result[1])

Upward == {"positive", "strongly_positive"}

Downward == {"negative", "strongly_negative"}

\* C10: with trend and momentum both set, forecast_direction is given by the
\* table of the two (uncertain exactly for a stable trend with a momentum
\* that is not stable); it is unset exactly when the series has fewer than
\* 3 points.
C10_ForecastLookup ==
    StatsReturned =>
        LET r == stats_result[1]
            forecast == r.forecast_direction
        IN  /\ forecast = None <=> r.data_points < 3
            /\ (r.trend # None /\ r.momentum # None) =>
                  /\ r.trend \in {"increasing", "decreasing", "stable"}
                  /\ r.momentum \in Upward \cup Downward \cup {"stable"}
                  /\ (r.trend = "increasing" /\ r.momentum \in Upward)
                        => forecast = "likely_continuing_upward"
                  /\ (r.trend = "decreasing" /\ r.momentum \in Downward)
                        => forecast = "likely_continuing_downward"
                  /\ (r.trend = "increasing" /\ r.momentum \in Downward)
                        => forecast = "possible_reversal_downward"
                  /\ (r.trend = "decreasing" /\ r.momentum \in Upward)
                        => forecast = "possible_reversal_upward"
                  /\ r.momentum = "stable" => forecast = "likely_stable"
                  /\ forecast = "uncertain"
                        <=> (r.trend = "stable" /\ r.momentum # "stable")

C10_Witness ==
    /\ StatsReturned
    /\ stats_result[1].data_points = 3
    /\ stats_result[1].trend = "stable"
    /\ stats_result[1].momentum = "strongly_positive"
    /\ stats_result[1].forecast_direction = "uncertain"

(***************************************************************************)
(* The data layer and the validators of explicit data requests: the other  *)
(* methods of DataService and utils.validators, called in any order on a   *)
(* loaded data service.  The data frame has the one country column of      *)
(* StatsCountries.                                                         *)
(***************************************************************************)
\* an exception with its message
RaiseWith(exc, message) == [raised |-> exc, message |-> message]

\* validators.validate_country
validate_country(country, available_countries) ==
    LET In(country_normalized) ==
            \E k \in DOMAIN available_countries :
                Lower(available_countries[k]) = country_normalized
    IN  In(Lower(Strip(country)))

NonZeroDigits == DigitChars \ {"0"}

\* the regular expression _strptime makes of "%Y-%m-%d"
strptime_pattern ==
    Cat(<<Digits(4, 4), Lit("-"),
          Alt(<<Cat(<<Lit("1"), Class({"0", "1", "2"})>>),
                Cat(<<Lit("0"), Class(NonZeroDigits)>>),
                Class(NonZeroDigits)>>),
          Lit("-"),
          Alt(<<Cat(<<Lit("3"), Class({"0", "1"})>>),
                Cat(<<Class({"1", "2"}), Class(DigitChars)>>),
                Cat(<<Lit("0"), Class(NonZeroDigits)>>),
                Class(NonZeroDigits),
                Cat(<<Lit(" "), Class(NonZeroDigits)>>)>>)>>)

\* datetime.strptime(s, "%Y-%m-%d"): the date, or the ValueError
strptime(s) ==
    LET Made(date) ==
            IF date.year < MINYEAR
            THEN RaiseWith("ValueError", "year 0 is out of range")
            ELSE IF ~ValidDate(date.year, date.month, date.day)
            THEN RaiseWith("ValueError", "day is out of range for month")
            ELSE date
        Parsed(parts) ==
            Made(Date(ParseInt(parts[1]), ParseInt(parts[2]), ParseInt(Strip(parts[3]))))
        Matched(ends) ==
            IF ends = {}
            THEN RaiseWith("ValueError",
                           "time data '" \o s \o "' does not match format '%Y-%m-%d'")
            ELSE IF (Len(s) + 1) \notin ends
            THEN RaiseWith("ValueError",
                           "unconverted data remains: " \o SubSeq(s, Max(ends), Len(s)))
            ELSE Parsed(Split(s, "-"))
    IN  Matched(MatchEnds(strptime_pattern, s, 1))

\* a < b on datetimes
DateLess(a, b) == ToOrdinal(a) < ToOrdinal(b)

StartBeforeEndMessage == "Start date must be before end date"

\* f"Date range must be between {data_start} and {data_end}"
OutOfRangeMessage(data_start, data_end) ==
    "Date range must be between " \o data_start \o " and " \o data_end

\* validators.validate_date_range: the returned pair, or the ValueError
validate_date_range(start_date, end_date, data_start, data_end) ==
    LET Validated(start, end) ==
            LET Checked(start_dt, end_dt, data_start_dt, data_end_dt) ==
                    IF IsRaise(start_dt)
                    THEN RaiseWith("ValueError", "Invalid date format: " \o start_dt.message)
                    ELSE IF IsRaise(end_dt)
                    THEN RaiseWith("ValueError", "Invalid date format: " \o end_dt.message)
                    ELSE IF IsRaise(data_start_dt)
                    THEN RaiseWith("ValueError", "Invalid date format: " \o data_start_dt.message)
                    ELSE IF IsRaise(data_end_dt)
                    THEN RaiseWith("ValueError", "Invalid date format: " \o data_end_dt.message)
                    ELSE IF DateLess(end_dt, start_dt)
                    THEN RaiseWith("ValueError", StartBeforeEndMessage)
                    ELSE IF DateLess(start_dt, data_start_dt) \/ DateLess(data_end_dt, end_dt)
                    THEN RaiseWith("ValueError", OutOfRangeMessage(data_start, data_end))
                    ELSE DateRange(start, end)
            IN  Checked(strptime(start), strptime(end), strptime(data_start), strptime(data_end))
    IN  Validated(IF Truthy(start_date) THEN start_date ELSE data_start,
                  IF Truthy(end_date) THEN end_date ELSE data_end)

\* a key the request dictionary does not hold
Absent == "<absent>"

\* the value of the key "countries": a list, or a non-empty string in its
\* place (held as its one item)
ListOf(items) == [is_list |-> TRUE, items |-> items]

StrOf(text) == [is_list |-> FALSE, items |-> <<text>>]

\* validators.validate_chart_request: the validated request, or the ValueError
validate_chart_request(chart_request, available_countries, date_range) ==
    LET countries == chart_request.countries.items
        Rest(validated) ==
            IF IsRaise(validated) THEN validated
            ELSE [countries |-> countries,
                  date_range |-> validated,
                  chart_type |->
                      IF chart_request.chart_type \in {"time_series", "comparison", "regional"}
                      THEN chart_request.chart_type ELSE "time_series",
                  title |->
                      IF chart_request.title = Absent THEN "Sentiment Trends"
                      ELSE Truncate(chart_request.title, 200)]
    IN  IF Len(countries) = 0
        THEN RaiseWith("ValueError", "At least one country must be specified")
        ELSE IF ~chart_request.countries.is_list
        THEN RaiseWith("ValueError", "Countries must be a list")
        ELSE IF Len(countries) > 10
        THEN RaiseWith("ValueError", "Maximum 10 countries allowed per chart")
        ELSE IF \E k \in DOMAIN countries : ~validate_country(countries[k], available_countries)
        THEN RaiseWith("ValueError", "Invalid country: " \o
                 countries[Min({k \in DOMAIN countries :
                                   ~validate_country(countries[k], available_countries)})])
        ELSE Rest(validate_date_range(chart_request.date_range.start,
                                      chart_request.date_range.end,
                                      date_range[1], date_range[2]))

\* get_countries returning the list it holds
get_countries_without_copy == [alias |-> TRUE, items |-> ds_countries]

\* DataService.get_countries: a copy of the list
get_countries == [alias |-> FALSE, items |-> ds_countries]

\* DataService.get_date_range
get_date_range == ds_date_range

\* DataService.get_multiple_countries_data: it raises, or returns as data the
\* rows in the range that hold a value of one of the countries, by date, each
\* with the cells of the countries asked for
get_multiple_countries_data(countries, start_date, end_date) ==
    IF \E k \in DOMAIN countries : ~InSeq(countries[k], ds_countries)
    THEN Raise("ValueError")
    ELSE [data |->
            LET Columns(rows) ==
                    [k \in DOMAIN rows |->
                        [date |-> rows[k].date,
                         cells |-> [c \in DOMAIN countries |-> rows[k].sentiment]]]
            IN  Columns(SortByDate(SelectSeq(df, LAMBDA row :
                    /\ Truthy(start_date) => ~StrLess(row.date, start_date)
                    /\ Truthy(end_date) => ~StrLess(end_date, row.date)
                    /\ row.sentiment # NaN)))]

\* f"Analysis Period: ...", lines 288-294
DateInfo(start_date, end_date) ==
    IF Truthy(start_date) /\ Truthy(end_date)
    THEN "Analysis Period: " \o start_date \o " to " \o end_date \o "\n\n"
    ELSE IF Truthy(start_date) THEN "Analysis from: " \o start_date \o "\n\n"
    ELSE IF Truthy(end_date) THEN "Analysis until: " \o end_date \o "\n\n"
    ELSE ""

\* DataService.get_data_summary: it raises, or returns the text; the text is
\* held as its date line and, for each country, the statistics its lines are
\* made from
get_data_summary(countries, start_date, end_date) ==
    LET Summaries(stats) ==
            IF \E k \in DOMAIN stats : IsRaise(stats[k])
            THEN stats[Min({k \in DOMAIN stats : IsRaise(stats[k])})]
            ELSE [date_info |-> DateInfo(start_date, end_date),
                  summaries |-> [k \in DOMAIN stats |->
                      [country |-> countries[k],
                       no_data |-> stats[k].data_points = 0,
                       statistics |-> stats[k]]]]
    IN  Summaries([k \in DOMAIN countries |->
                      get_summary_statistics(countries[k], start_date, end_date)])

\* lines 327-342: the changes of more than 10% from one value to the next
NotableChanges(data) ==
    LET Change(k) ==
            [date |-> data[k].date,
             change |-> data[k].sentiment[1] - data[k - 1].sentiment[1],
             direction |-> IF data[k].sentiment[1] > data[k - 1].sentiment[1]
                           THEN "increase" ELSE "decrease"]
        Notable(k) ==
            /\ data[k - 1].sentiment[1] # 0
            /\ 100 * Abs(data[k].sentiment[1] - data[k - 1].sentiment[1])
                  > 10 * Abs(data[k - 1].sentiment[1])
        Changes(at) == [j \in DOMAIN at |-> Change(at[j])]
    IN  Changes(SortedSeq({k \in 2..Len(data) : Notable(k)}))

\* DataService.get_detailed_analysis: it raises, or returns the analysis
get_detailed_analysis(countries, start_date, end_date) ==
    LET Analysis(got) ==
            IF \E k \in DOMAIN got : IsRaise(got[k])
            THEN got[Min({k \in DOMAIN got : IsRaise(got[k])})]
            ELSE [countries |-> countries,
                  date_range |-> DateRange(start_date, end_date),
                  country_data |-> [k \in DOMAIN got |->
                      [country |-> countries[k],
                       statistics |-> get_summary_statistics(countries[k], start_date, end_date),
                       recent_values |-> LastN(got[k].data, 5),
                       notable_changes |-> NotableChanges(got[k].data)]]]
    IN  Analysis([k \in DOMAIN countries |->
                     get_country_data(countries[k], start_date, end_date)])

\* bound: number of rows of the data frame the data layer is called on
MaxTableRows == 2

\* bound: number of times a caller appends to the list it holds
MaxAppends == 1

TableCells == {NaN, Value(100), Value(106)}

Tables ==
    UNION {{[k \in 1..n |-> [date |-> StatsDates[k], sentiment |-> column[k]]] :
               column \in [1..n -> TableCells]} : n \in 0..MaxTableRows}

CountryNames == {"France", "Atlantis", " France", "france"}

CountryArguments == {<<"France">>, <<"France", "Atlantis">>, <<"france">>, <<"France", "France">>}

RangeArguments == {DateRange(None, None), DateRange("2020-01-15", "2020-02-20")}

ChartCountries ==
    {ListOf(<<>>), StrOf("France"), ListOf(<<"France">>), ListOf(<<" france ">>),
     ListOf(<<"France", "Atlantis">>), ListOf(<<"Atlantis">>),
     ListOf([k \in 1..11 |-> "France"])}

ChartRequests ==
    {[countries |-> countries, date_range |-> range, chart_type |-> look[1], title |-> look[2]] :
        countries \in ChartCountries,
        range \in {DateRange(None, None), DateRange("2020-02-01", "2020-01-01")},
        look \in {<<"pie", Copies("t", 201)>>}}
       \cup {[countries |-> ListOf(<<"France">>), date_range |-> DateRange("2020-01-01", None),
               chart_type |-> "comparison", title |-> Absent]}

InitData ==
    /\ df \in Tables
    /\ ds_countries = StatsCountries
    /\ ds_date_range = LoadedDateRange(df)
    /\ DataIdle
    /\ stats_call = <<>> /\ stats_result = <<>>
    /\ GuardIdle /\ SanitizeIdle /\ RateIdle /\ ParserIdle /\ HostIdle

\* a call of the data layer or of a validator, and what it returned or raised
DataCall(op, args, value) ==
    /\ ds_call' = [op |-> op, args |-> args]
    /\ ds_result' = <<value>>
    /\ UNCHANGED <<df, ds_countries, ds_date_range, stats_call, stats_result>>
    /\ UNCHANGED <<guardVars, sanitizeVars, rateVars, parserVars, hostVars>>

GetCountries ==
    /\ DataCall("get_countries", <<>>, get_countries.items)
    /\ caller_list' = get_countries

GetDateRange ==
    /\ DataCall("get_date_range", <<>>, get_date_range)
    /\ UNCHANGED caller_list

GetCountryData ==
    \E country \in CountryNames, range \in RangeArguments :
        /\ DataCall("get_country_data", <<country, range>>,
                    get_country_data(country, range.start, range.end))
        /\ UNCHANGED caller_list

GetMultipleCountriesData ==
    \E countries \in CountryArguments, range \in RangeArguments :
        /\ DataCall("get_multiple_countries_data", <<countries, range>>,
                    get_multiple_countries_data(countries, range.start, range.end))
        /\ UNCHANGED caller_list

GetStatistics ==
    \E country \in CountryNames, range \in RangeArguments :
        /\ DataCall("get_summary_statistics", <<country, range>>,
                    get_summary_statistics(country, range.start, range.end))
        /\ UNCHANGED caller_list

GetDataSummary ==
    \E countries \in CountryArguments, range \in RangeArguments :
        /\ DataCall("get_data_summary", <<countries, range>>,
                    get_data_summary(countries, range.start, range.end))
        /\ UNCHANGED caller_list

GetDetailedAnalysis ==
    \E countries \in CountryArguments, range \in RangeArguments :
        /\ DataCall("get_detailed_analysis", <<countries, range>>,
                    get_detailed_analysis(countries, range.start, range.end))
        /\ UNCHANGED caller_list

\* a caller appends to the list it got from get_countries; a list that is
\* the data service's own is the same object
CallerAppends ==
    /\ caller_list # <<>>
    /\ Len(caller_list.items) < Len(StatsCountries) + MaxAppends
    /\ caller_list' = [caller_list EXCEPT !.items = Append(@, "Atlantis")]
    /\ ds_countries' = IF caller_list.alias THEN Append(ds_countries, "Atlantis")
                       ELSE ds_countries
    /\ UNCHANGED <<df, ds_date_range, ds_call, ds_result, stats_call, stats_result>>
    /\ UNCHANGED <<guardVars, sanitizeVars, rateVars, parserVars, hostVars>>

ValidateCountry ==
    \E country \in CountryNames :
        /\ DataCall("validate_country", <<country>>,
                    validate_country(country, get_countries.items))
        /\ UNCHANGED caller_list

\* lines 318-325 of generate_chart
ValidateChartRequest ==
    \E chart_request \in ChartRequests :
        /\ DataCall("validate_chart_request", <<chart_request>>,
                    validate_chart_request(chart_request, get_countries.items, get_date_range))
        /\ UNCHANGED caller_list

\* lines 317-332 of generate_chart: the request is validated and the data
\* of the validated countries and range is read
generate_chart_data(chart_request) ==
    LET Data(validated_request) ==
            IF IsRaise(validated_request) THEN validated_request
            ELSE get_multiple_countries_data(validated_request.countries,
                                             validated_request.date_range.start,
                                             validated_request.date_range.end)
    IN  Data(validate_chart_request(chart_request, get_countries.items, get_date_range))

GenerateChart ==
    \E chart_request \in ChartRequests :
        /\ DataCall("generate_chart", <<chart_request>>, generate_chart_data(chart_request))
        /\ UNCHANGED caller_list

NextData ==
    \/ GetCountries \/ GetDateRange \/ GetCountryData \/ GetMultipleCountriesData
    \/ GetStatistics \/ GetDataSummary \/ GetDetailedAnalysis \/ CallerAppends
    \/ ValidateCountry \/ ValidateChartRequest \/ GenerateChart

SpecData == InitData /\ [][NextData]_vars

(***************************************************************************)
(* validate_date_range on its own: one call on arguments drawn at the      *)
(* start.                                                                  *)
(***************************************************************************)
StartArguments ==
    {None, "2020-01-01", "2020-02-01", "2019-12-31", "2020-02-30", "2020/01/15", "2020-1-20"}

EndArguments == {None, "", "2020-01-01", "2020-02-01", "2020-03-01", "2020-1-5"}

\* the date ranges of a data service
DataRanges == {<<"2020-01-01", "2020-02-01">>, <<"2020-01-01", "2020-01-01">>, <<"", "">>}

InitDates ==
    /\ \E start_date \in StartArguments, end_date \in EndArguments, range \in DataRanges :
          ds_call = [op |-> "validate_date_range",
                     args |-> <<start_date, end_date, range[1], range[2]>>]
    /\ ds_result = <<>> /\ caller_list = <<>>
    /\ df = <<>> /\ stats_call = <<>> /\ stats_result = <<>>
    /\ ds_countries = <<>> /\ ds_date_range = <<"", "">>
    /\ GuardIdle /\ SanitizeIdle /\ RateIdle /\ ParserIdle /\ HostIdle

ValidateDateRange ==
    /\ ds_result = <<>>
    /\ ds_result' = <<validate_date_range(ds_call.args[1], ds_call.args[2],
                                          ds_call.args[3], ds_call.args[4])>>
    /\ UNCHANGED <<df, stats_call, stats_result, ds_countries, ds_date_range, ds_call, caller_list>>
    /\ UNCHANGED <<guardVars, sanitizeVars, rateVars, parserVars, hostVars>>

NextDates == ValidateDateRange

SpecDates == InitDates /\ [][NextDates]_vars

\* the series get_summary_statistics computes on: the values in the range of
\* the call, oldest first
StatsSeries ==
    LET Values(got) ==
            IF IsRaise(got) THEN <<>>
            ELSE [k \in DOMAIN got.data |-> got.data[k].sentiment[1]]
    IN  Values(get_country_data(stats_call.country, stats_call.start_date, stats_call.end_date))

StrictlyIncreasing(values) == \A k \in 1..(Len(values) - 1) : values[k] < values[k + 1]

\* C11: for a series of at least 3 points (the fewest that give a momentum)
\* in which every value is greater than the one before, the trend is
\* increasing and forecast_direction is likely_continuing_upward or
\* likely_stable.
C11_IncreasingSeriesForecast ==
    (StatsReturned /\ Len(StatsSeries) >= 3 /\ StrictlyIncreasing(StatsSeries)) =>
        /\ stats_result[1].trend = "increasing"
        /\ stats_result[1].forecast_direction \in {"likely_continuing_upward", "likely_stable"}

Constant(values) == \A k \in DOMAIN values : values[k] = values[1]

\* C12: for a series of at least 2 equal values, volatility_value and
\* trend_strength are 0 and volatility is low; and no returned quotient has a
\* divisor of 0: the standard deviation under trend_strength is positive and
\* the mean under volatility_value is not 0.
C12_ConstantSeries ==
    StatsReturned =>
        LET r == stats_result[1] IN
        /\ (Len(StatsSeries) >= 2 /\ Constant(StatsSeries)) =>
              /\ r.volatility_value.root_of = Zero
              /\ r.volatility = "low"
              /\ r.trend_strength.abs = Zero
        /\ r.data_points > 0 =>
              /\ r.trend_strength.over_root_of.num > 0
              /\ r.volatility_value.over.num # 0

C12_Witness ==
    /\ StatsReturned
    /\ Len(StatsSeries) >= 2 /\ Constant(StatsSeries) /\ StatsSeries[1] = 0
    /\ stats_result[1].data_points = Len(StatsSeries)
    /\ stats_result[1].volatility = "low"

\* C13: a call for a known country returns a record; the record of a series
\* without observations has data_points = 0 and mean, min, max, trend,
\* momentum, volatility and forecast_direction None, and the record of a
\* series with observations counts them and has mean, min and max set.
C13_EmptySeriesRecord ==
    (stats_result # <<>> /\ InSeq(stats_call.country, ds_countries)) =>
        /\ StatsReturned
        /\ LET r == stats_result[1] IN
           /\ r.data_points = Len(StatsSeries)
           /\ r.data_points = 0 =>
                 /\ r.mean = NoNumber /\ r.min = NoNumber /\ r.max = NoNumber
                 /\ r.trend = None /\ r.momentum = None /\ r.volatility = None
                 /\ r.forecast_direction = None
           /\ r.data_points > 0 =>
                 r.mean # NoNumber /\ r.min # NoNumber /\ r.max # NoNumber

\* rows exist, none of them in the range of the call
C13_Witness ==
    /\ StatsReturned
    /\ df # <<>> /\ \E k \in DOMAIN df : df[k].sentiment # NaN
    /\ stats_call.end_date = "2020-02-15"
    /\ stats_result[1].data_points = 0
    /\ stats_result[1].mean = NoNumber

\* the name matches no country of the data service, however it is written
UnknownCountry(name) ==
    \A k \in DOMAIN ds_countries : Lower(Strip(name)) # Lower(ds_countries[k])

\* C14: for a name that matches no dataset country validate_country returns
\* false, validate_chart_request raises for a request holding one, and
\* get_country_data, get_multiple_countries_data and get_summary_statistics
\* raise for it and return no data.
C14_UnknownCountryRejected ==
    ds_result # <<>> =>
        /\ (ds_call.op = "validate_country" /\ UnknownCountry(ds_call.args[1])) =>
               ds_result[1] = FALSE
        /\ (/\ ds_call.op = "validate_chart_request"
            /\ \E k \in DOMAIN ds_call.args[1].countries.items :
                   UnknownCountry(ds_call.args[1].countries.items[k])) =>
               IsRaise(ds_result[1])
        /\ (/\ ds_call.op \in {"get_country_data", "get_summary_statistics"}
            /\ UnknownCountry(ds_call.args[1])) =>
               IsRaise(ds_result[1]) /\ DOMAIN ds_result[1] = {"raised"}
        /\ (/\ ds_call.op = "get_multiple_countries_data"
            /\ \E k \in DOMAIN ds_call.args[1] : UnknownCountry(ds_call.args[1][k])) =>
               IsRaise(ds_result[1]) /\ DOMAIN ds_result[1] = {"raised"}

\* a chart of a known and an unknown country is refused for the unknown one
C14_Witness ==
    /\ ds_result # <<>>
    /\ ds_call.op = "validate_chart_request"
    /\ ds_call.args[1].countries = ListOf(<<"France", "Atlantis">>)
    /\ IsRaise(ds_result[1])
    /\ ds_result[1].message = "Invalid country: Atlantis"

\* the bound validate_date_range works with: the dataset edge for an absent one
BoundOrEdge(bound, edge) == IF Truthy(bound) THEN bound ELSE edge

\* the four dates of the call are dates of the form %Y-%m-%d
DatesParse ==
    /\ ~IsRaise(strptime(BoundOrEdge(ds_call.args[1], ds_call.args[3])))
    /\ ~IsRaise(strptime(BoundOrEdge(ds_call.args[2], ds_call.args[4])))
    /\ ~IsRaise(strptime(ds_call.args[3])) /\ ~IsRaise(strptime(ds_call.args[4]))

\* C15: validate_date_range raises, with a message that names data_start
\* and data_end, when start > end or start < data_start or end > data_end;
\* when it returns, it returns the given bounds, an absent one replaced by
\* the dataset edge, and data_start <= start <= end <= data_end.
C15_DateRangeRejectedOrUnchanged ==
    (ds_call # <<>> /\ ds_call.op = "validate_date_range" /\ ds_result # <<>>) =>
        LET Holds(start, end, data_start, data_end, result) ==
                /\ (/\ DatesParse
                    /\ \/ DateLess(strptime(end), strptime(start))
                       \/ DateLess(strptime(start), strptime(data_start))
                       \/ DateLess(strptime(data_end), strptime(end))) =>
                       /\ IsRaise(result)
                       /\ Contains(result.message, data_start)
                       /\ Contains(result.message, data_end)
                /\ ~IsRaise(result) =>
                       /\ result = DateRange(start, end)
                       /\ ~DateLess(strptime(start), strptime(data_start))
                       /\ ~DateLess(strptime(end), strptime(start))
                       /\ ~DateLess(strptime(data_end), strptime(end))
        IN  Holds(BoundOrEdge(ds_call.args[1], ds_call.args[3]),
                  BoundOrEdge(ds_call.args[2], ds_call.args[4]),
                  ds_call.args[3], ds_call.args[4], ds_result[1])

\* C16: no call of the data service and no append by a caller to a list
\* that get_countries returned changes the table, the country list or the
\* date range the data service holds.
C16_DatasetReadOnly ==
    [][df' = df /\ ds_countries' = ds_countries /\ ds_date_range' = ds_date_range]_vars

\* a caller has appended to the list it got, and the data service has
\* answered a call since
C16_Witness ==
    /\ caller_list # <<>>
    /\ Len(caller_list.items) > Len(StatsCountries)
    /\ ds_call # <<>> /\ ds_call.op = "get_multiple_countries_data"
    /\ ds_call.args[1] = <<"France", "Atlantis">>
    /\ IsRaise(ds_result[1])
    /\ ds_countries = StatsCountries

InvalidExplicitDate(q) ==
    \E k \in DOMAIN FindAllDates(q) :
        ~ValidDate(ParseInt(FindAllDates(q)[k][1]), ParseInt(FindAllDates(q)[k][2]),
                   ParseInt(FindAllDates(q)[k][3]))

\* C22: when an explicit date of the query is not a valid calendar date, so
\* that the parser faults on it, extract_date_range and parse_query raise;
\* they return neither an unset range nor the default range.
C22_ParserFaultSurfaces ==
    (/\ parser_result # <<>>
     /\ parser_result[1].op \in {"extract_date_range", "parse_query"}
     /\ InvalidExplicitDate(parser_query)) =>
        IsRaise(parser_result[1].value)

\* the query asks for all or every country or nation, singular or plural
AsksForEveryCountry(q) ==
    Search(Cat(<<WB, Words({"all", "every"}), WS1,
                 Words({"country", "countries", "nation", "nations"}), WB>>), Lower(q))

\* C23: a query that asks for all or every country or nation, singular or
\* plural, gets a blocked verdict of category data_extraction.
C23_BulkCountryBlocked ==
    (verdict # NoVerdict /\ AsksForEveryCountry(query)) =>
        ~verdict.allowed /\ verdict.category = "data_extraction"

\* the field, trimmed, is digits with at most one "." and at most one "-",
\* which leads
HasNumericShape(p) ==
    LET Unsigned(u) == /\ ~Contains(u, "-") /\ CountChar(u, ".") <= 1
                       /\ IsDigit(RemoveChar(u, "."))
        Signed(t) == IF Len(t) > 0 /\ Char(t, 1) = "-"
                     THEN Unsigned(SubSeq(t, 2, Len(t))) ELSE Unsigned(t)
    IN  Signed(Strip(p))

\* the line goes when more than 70% of its more than 5 fields have the shape
RemovedByShape(line) ==
    /\ Contains(line, ",")
    /\ LET Counted(parts) ==
               /\ Len(parts) > 5
               /\ ExceedsSeventyPercent(
                      Cardinality({i \in 1..Len(parts) : HasNumericShape(parts[i])}),
                      Len(parts))
       IN  Counted(Split(line, ","))

\* C24: sanitize_response counts a field as numeric exactly when the trimmed
\* field is digits with at most one "." and an optional single leading "-":
\* the lines it removes are those with more than 70% of such fields.
C24_NumericFieldShape ==
    sanitized # <<>> =>
        sanitized[1] = Join(SelectSeq(Split(response_text, "\n"),
                                      LAMBDA line : ~RemovedByShape(line)), "\n")

\* C25: for a series of at least 3 points the momentum is positive or
\* strongly_positive only when momentum_value > 0, negative or
\* strongly_negative only when momentum_value < 0, and stable exactly when
\* |momentum_value| < 1.
C25_MomentumSign ==
    (StatsReturned /\ Len(StatsSeries) >= 3) =>
        LET Agrees(momentum, value) ==
                /\ momentum \in Upward => value.num > 0
                /\ momentum \in Downward => value.num < 0
                /\ momentum = "stable" <=> Abs(value.num) < value.den
                /\ momentum \in Upward \cup Downward \cup {"stable"}
        IN  Agrees(stats_result[1].momentum, stats_result[1].momentum_value)

\* C26: for a series of n >= 3 points and a window of max(1, n // 5) points,
\* n is at least two windows, the recent window is the last block of the
\* series and the previous window the block of the same size just before
\* it, and momentum_value compares these two blocks.
C26_PreviousWindowPrecedes ==
    (StatsReturned /\ Len(StatsSeries) >= 3) =>
        LET Compared(recent, previous) ==
                IF Sum(previous) # 0
                THEN Rat(100 * (Sum(recent) - Sum(previous)), Sum(previous))
                ELSE Zero
            Holds(values, n, window) ==
                /\ n >= 2 * window /\ window >= 1
                /\ RecentWindow(values) = SubSeq(values, n - window + 1, n)
                /\ PreviousWindow(values) = SubSeq(values, n - 2 * window + 1, n - window)
                /\ Len(RecentWindow(values)) = window /\ Len(PreviousWindow(values)) = window
                /\ stats_result[1].momentum_value =
                       Compared(SubSeq(values, n - window + 1, n),
                                SubSeq(values, n - 2 * window + 1, n - window))
        IN  Holds(StatsSeries, Len(StatsSeries),
                  IF Len(StatsSeries) \div 5 >= 1 THEN Len(StatsSeries) \div 5 ELSE 1)

\* ten rising points: a window of two, (219 - 215) / 215 * 100
C26_Witness ==
    /\ StatsReturned
    /\ Len(StatsSeries) = 10
    /\ stats_result[1].momentum_value = Rat(400, 215)
    /\ stats_result[1].momentum = "positive"

\* C27: a line that prompt_templates.sanitize_response drops is one that
\* GuardrailService.sanitize_response drops; the text after both filters is
\* the text GuardrailService.sanitize_response makes of the generated text;
\* and GuardrailService.sanitize_response applied to its own result returns it.
C27_FiltersCompose ==
    /\ \A k \in DOMAIN Split(response_text, "\n") :
           TemplateDropsLine(Split(response_text, "\n")[k]) =>
               GuardrailDropsLine(Split(response_text, "\n")[k])
    /\ Len(sanitized) >= 2 =>
           sanitized[2] = GuardrailService_sanitize_response(response_text)
    /\ Len(sanitized) >= 3 => sanitized[3] = sanitized[2]

\* a text with a line of seven fields that both filters drop and a line of
\* six that the second alone drops
C27_Witness ==
    /\ response_text = "2020,1.5,-2,3,4,5,France\n 1 , 2 ,3,4,5,x"
    /\ sanitized = <<" 1 , 2 ,3,4,5,x", "", "">>

\* the history of the session before the request, empty for a new session
HistoryBefore(session_id) ==
    IF session_id \in DOMAIN sessions THEN sessions[session_id].history ELSE <<>>

\* what a step does to the histories: every one holds at most 20 turns in
\* arrival order; an answered request appends one turn to its own session,
\* of which the 20 most recent are kept, and leaves the other sessions as
\* they were; a request refused before that changes none
HistoryStep ==
    /\ \A s \in DOMAIN sessions' :
          /\ Len(sessions'[s].history) <= 20
          /\ \A k \in 1..(Len(sessions'[s].history) - 1) :
                 sessions'[s].history[k].timestamp < sessions'[s].history[k + 1].timestamp
    /\ (process_result' = <<>>) => (sessions' = sessions)
    /\ (process_result' # <<>>) =>
          /\ DOMAIN sessions' = DOMAIN sessions \cup {process_result'[1].session_id}
          /\ \A s \in DOMAIN sessions \ {process_result'[1].session_id} :
                 sessions'[s] = sessions[s]
          /\ sessions'[process_result'[1].session_id].history =
                 LastN(Append(HistoryBefore(process_result'[1].session_id),
                              [user |-> sanitize_input(request'.text),
                               assistant |-> process_result'[1].response,
                               timestamp |-> clock']), 20)

\* C28: after any sequence of chat requests every stored history holds at
\* most 20 turns, the most recent of the session in arrival order; each
\* request that process_query answers appends one turn to its own session
\* and leaves every other history unchanged.
C28_HistoryOfRecentTurns == [][HistoryStep]_vars

\* the main session has lost its oldest turns, another session holds one
C28_Witness ==
    /\ DOMAIN sessions = {"s1", "s2"}
    /\ Len(sessions["s1"].history) = 20
    /\ sessions["s1"].history[1].timestamp > 2
    /\ Len(sessions["s2"].history) = 1

RECURSIVE SumOfCounts(_)
\* the sum of the counts of a dictionary
SumOfCounts(dict) ==
    IF DOMAIN dict = {} THEN 0
    ELSE LET key == CHOOSE k \in DOMAIN dict : TRUE
         IN  dict[key] + SumOfCounts([k \in DOMAIN dict \ {key} |-> dict[k]])

\* the recorded queries that were blocked with a category
BlockedRecords ==
    SelectSeq(tracker.queries, LAMBDA q : q.blocked /\ Truthy(q.block_category))

\* the recorded queries that count by type and by country
CountedRecords ==
    SelectSeq(tracker.queries, LAMBDA q : ~(q.blocked /\ Truthy(q.block_category)))

\* C29: the number of recorded queries equals the sum of daily_usage, the
\* sum of the sessions' query_count and the sum of query_types plus the sum
\* of blocked_queries; each session's query_count is its chart_requests
\* plus its text_queries; and the queries blocked with a category are
\* counted in blocked_queries alone, not in query_types or country_mentions.
C29_CountersConsistent ==
    /\ Len(tracker.queries) = SumOfCounts(tracker.daily_usage)
    /\ Len(tracker.queries) =
          SumOfCounts([s \in DOMAIN tracker.sessions |-> tracker.sessions[s].query_count])
    /\ Len(tracker.queries) =
          SumOfCounts(tracker.query_types) + SumOfCounts(tracker.blocked_queries)
    /\ \A s \in DOMAIN tracker.sessions :
          tracker.sessions[s].query_count =
              tracker.sessions[s].chart_requests + tracker.sessions[s].text_queries
    /\ SumOfCounts(tracker.blocked_queries) = Len(BlockedRecords)
    /\ SumOfCounts(tracker.query_types) = Len(CountedRecords)
    /\ SumOfCounts(tracker.country_mentions) =
          Sum([k \in DOMAIN CountedRecords |-> Len(CountedRecords[k].countries)])

\* three calls on two days: one blocked with a category and naming
\* countries, two counted
C29_Witness ==
    /\ Len(tracker.queries) = 3
    /\ Len(BlockedRecords) = 1 /\ BlockedRecords[1].countries = <<"France", "Niger">>
    /\ tracker.blocked_queries = ("data_extraction" :> 1)
    /\ SumOfCounts(tracker.country_mentions) = 0
    /\ DOMAIN tracker.daily_usage = {"2026-11-03", "2026-11-04"}
    /\ DOMAIN tracker.sessions = {"s1", "s2"}

\* C30: when validate_chart_request accepts a chart request,
\* get_multiple_countries_data returns data for the countries it returned
\* and does not raise.
C30_AcceptedChartIsServed ==
    (/\ ds_result # <<>> /\ ds_call.op = "generate_chart"
     /\ ~IsRaise(validate_chart_request(ds_call.args[1], ds_countries, ds_date_range))) =>
        ~IsRaise(ds_result[1])

====
